---- MODULE Spec2Model ----
(***************************************************************************)
(* Host-side mailbox transport and command layer of the Cadence MHDP       *)
(* DisplayPort bridge (drivers/gpu/drm/bridge/cadence/cdns-mhdp-common.c). *)
(*                                                                         *)
(* Every caller is a thread th[p] with the locals of the C functions it is *)
(* executing.  The mailbox is driven one register access at a time: one    *)
(* iteration of the polling macro, one access of a data register.  The     *)
(* firmware is the environment: it answers a completed request frame with  *)
(* one of a bounded set of response frames, and it decides every sample of *)
(* the FULL flag and every sample of the EMPTY flag while it has a byte    *)
(* ready (the flag reads set whenever the read FIFO holds nothing).        *)
(***************************************************************************)
EXTENDS Integers, Sequences, FiniteSets, TLC

(* ------------------------------------------------------------------ *)
(* Bounds of the model                                                 *)
(* ------------------------------------------------------------------ *)

\* MAILBOX_TIMEOUT_US counted in clock ticks of the model
MboxTimeoutTicks == 2
\* the longest one usleep_range() of the polling macro lasts, in ticks
SleepTicks == 1
\* the longest EDID payload a caller asks for
MaxEdidLen == 2
\* FW_ALIVE_TIMEOUT_US, in sleeps of the polling macro
AliveTimeoutTicks == 2
\* int to = 100 in ls_pcie_g4_reinit_hw: the retries of its two polls
PollRetries == 2
\* u8 retries_left = 50 in cdns_mhdp_check_alive
AliveRetries == 2
\* LINK_TRAINING_TIMEOUT_MS counted in ticks of the jiffies clock
TrainTimeoutTicks == 3
\* the longest that one msleep(LINK_TRAINING_RETRY_MS) and the mailbox exchange
\* after it take, in ticks
TrainSleepTicks == 2

(* ------------------------------------------------------------------ *)
(* Program constants                                                   *)
(* ------------------------------------------------------------------ *)

ETIMEDOUT == 110
EINVAL == 22

MB_MODULE_ID_DP_TX == 1
MB_MODULE_ID_GENERAL == 10

GENERAL_WRITE_REGISTER == 5
GENERAL_READ_REGISTER == 7

DPTX_SET_HOST_CAPABILITIES == 1
DPTX_GET_EDID == 2
DPTX_READ_DPCD == 3
DPTX_WRITE_DPCD == 4
DPTX_ENABLE_EVENT == 5
DPTX_WRITE_FIELD == 8
DPTX_SET_VIDEO == 12
DPTX_ADJUST_LT == 18
DP_LANE0_1_STATUS == 514
DPTX_HPD_STATE == 17
DPTX_TRAINING_CONTROL == 9
DPTX_READ_EVENT == 10
DPTX_READ_LINK_STAT == 11
LINK_TRAINING_RUN == 1
EQ_PHASE_FINISHED == 32

\* cdns_mhdp_set_host_cap's payload
SCRAMBLER_EN == 16
VOLTAGE_LEVEL_2 == 2
PRE_EMPHASIS_LEVEL_3 == 3
PTS_ALL == 15
FAST_LT_NOT_SUPPORT == 0
LANE_MAPPING_NORMAL == 27
LANE_MAPPING_FLIPPED == 228
ENHANCED == 1
\* MHDP_EVENT_ENABLE_HPD | MHDP_EVENT_ENABLE_TRAINING
MHDP_EVENT_ENABLE == 3
\* the tries of cdns_mhdp_get_edid_block
EDID_TRIES == 4
\* cdns_mhdp_load_firmware, cdns_mhdp_set_firmware_active
GENERAL_MAIN_CONTROL == 1
FW_STANDBY == 0
FW_ACTIVE == 1
APB_CTRL == 0
APB_RESET_ALL == 7
ADDR_IMEM == 65536
ADDR_DMEM == 131072
\* cdns_mhdp_config_video
TU_SIZE == 30
TU_SIZE_MAX == 64
TU_CNT_RST_EN == 32768
VIF_BYPASS_INTERLACE == 8192
PXL_RGB == 1
YCBCR_4_4_4 == 2
YCBCR_4_2_2 == 4
YCBCR_4_2_0 == 8
Y_ONLY == 16
BT_601 == 0
DP_FRAMER_SP_HSP == 2
DP_FRAMER_SP_VSP == 1
\* the registers cdns_mhdp_config_video writes (their low 16 address bits)
BND_HSYNC2VSYNC == 2816
HSYNC2VSYNC_POL_CTRL == 2832
DP_FRAMER_TU == 8712
DP_FRAMER_PXL_REPR == 8716
DP_FRAMER_SP == 8720
DP_VC_TABLE_15 == 8788
DP_VB_ID == 8792
DP_FRONT_BACK_PORCH == 8824
DP_BYTE_COUNT == 8828
MSA_HORIZONTAL_0 == 8832
MSA_HORIZONTAL_1 == 8836
MSA_VERTICAL_0 == 8840
MSA_VERTICAL_1 == 8844
MSA_MISC == 8848
STREAM_CONFIG == 8852
DP_HORIZONTAL == 8880
DP_VERTICAL_0 == 8884
DP_VERTICAL_1 == 8888

Procs == {1, 2}

(* ------------------------------------------------------------------ *)
(* Fixed-width integers and the unaligned big-endian accessors         *)
(* ------------------------------------------------------------------ *)

U8(x) == x % 256
U16(x) == x % 65536

\* A u32 is the pair <<high half, low half>> of its 16-bit halves (TLC's
\* integers end at 2^31 - 1).
W32(hi, lo) == <<hi, lo>>

\* the u32 that a computation's result n is stored as
ToW32(n) == W32((n \div 65536) % 65536, n % 65536)

\* a | b
RECURSIVE BitOr(_, _)
BitOr(a, b) ==
    IF a = 0 THEN b
    ELSE IF b = 0 THEN a
    ELSE (IF a % 2 = 1 \/ b % 2 = 1 THEN 1 ELSE 0) + 2 * BitOr(a \div 2, b \div 2)

\* a u32 returned through an int (cdns_mhdp_reg_read: "return val;")
ToInt32(w) == (IF w[1] >= 32768 THEN w[1] - 65536 ELSE w[1]) * 65536 + w[2]

put_unaligned_be16(val) == << U8(val \div 256), U8(val) >>

get_unaligned_be16(p) == p[1] * 256 + p[2]

\* _p[0] = val >> 16; _p[1] = val >> 8; _p[2] = val;  (val is a u32)
put_unaligned_be24(val) == << U8(val[1]), U8(val[2] \div 256), U8(val[2]) >>

\* return _p[0] << 16 | _p[1] << 8 | _p[2];  (a u32)
get_unaligned_be24(p) == W32(p[1], p[2] * 256 + p[3])

put_unaligned_be32(val) ==
    << U8(val[1] \div 256), U8(val[1]), U8(val[2] \div 256), U8(val[2]) >>

get_unaligned_be32(p) == W32(p[1] * 256 + p[2], p[3] * 256 + p[4])

(* ------------------------------------------------------------------ *)
(* State                                                               *)
(* ------------------------------------------------------------------ *)

VARIABLES
    th,      \* th[p]: the locals of caller p (command, transport call, byte access)
    rx,      \* the bytes the firmware has queued behind MAILBOX0_RD_DATA
    fwreg,   \* the firmware's register file, as written through the mailbox
    lastBy,  \* the caller that made the latest mailbox data-register access
    link,    \* mhdp->dp.link: rate and num_lanes
    wrote,   \* the value each register was last written with by a
             \* cdns_mhdp_reg_write that returned 0
    fw_version,  \* mhdp->fw_version, as its four bytes from the low one up
    pcie,    \* the Layerscape Gen4 PCIe controller, its interrupt handler and
             \* its deferred reset work
    bus      \* the register bus of the device handle: mhdp->bus_type,
             \* mhdp->iolock, the page-select registers and the calls of
             \* cdns_mhdp_bus_read and cdns_mhdp_bus_write in progress

\* the device state that the mailbox commands below leave alone
dev == <<link, fw_version, pcie, bus>>

vars == <<th, rx, fwreg, lastBy, link, wrote, fw_version, pcie, bus>>

\* A caller outside every command.  The fields are the C locals:
\*   cmd, cpc, arg, msg, reg   the command, the place in it, its arguments and
\*                             its request / response-header buffers
\*   fn .. buff, tret          the transport call in progress and its locals
\*   bst, dir, wval, elapsed   the byte access in progress: the polling macro's
\*                             position, the deadline's age, the byte to write
\*   clear, rd, raw, res       what the latest byte access did: its last flag
\*                             sample was clear, its reads of MAILBOX0_RD_DATA,
\*                             the register value read, its result
\*   sent, nread, nx, contig   what the transport call in progress transferred
\*   steps, nsend, seen, rk    what the command did: the transport calls of the
\*                             latest request/response cycle, the sends, the
\*                             response headers it received whole, the kind of
\*                             the firmware's latest answer
\*   hist, old                 what a command made of several requests did so
\*                             far: the result of each of its transport calls
\*                             or register writes; the link state it found
\*   now                       the jiffies since link training set its deadline
IdleThread ==
    [cmd |-> "none", cpc |-> "idle", arg |-> <<>>, msg |-> <<>>, reg |-> <<>>,
     att |-> 0, ret |-> 0,
     fn |-> "none", module_id |-> 0, opcode |-> 0, size |-> 0, message |-> <<>>,
     loop |-> "none", i |-> 0, header |-> <<>>, mbox_size |-> 0, buff |-> <<>>,
     tret |-> 0,
     bst |-> "none", dir |-> "none", wval |-> 0, elapsed |-> 0,
     clear |-> FALSE, rd |-> 0, raw |-> 0, res |-> 0,
     sent |-> <<>>, nread |-> 0, nx |-> 0, contig |-> TRUE,
     steps |-> <<>>, nsend |-> 0, seen |-> {}, rk |-> "none",
     hist |-> <<>>, old |-> <<>>, now |-> 0]

(* ------------------------------------------------------------------ *)
(* Mailbox transport                                                   *)
(* ------------------------------------------------------------------ *)

\* cdp_dp_mailbox_write(mhdp, val) is entered
StartWrite(l, val) ==
    [l EXCEPT !.bst = "poll", !.dir = "write", !.wval = val, !.elapsed = 0,
              !.clear = FALSE, !.rd = 0, !.raw = 0, !.res = 0]

\* cdns_mhdp_mailbox_read(mhdp) is entered
StartRead(l) ==
    [l EXCEPT !.bst = "poll", !.dir = "read", !.wval = 0, !.elapsed = 0,
              !.clear = FALSE, !.rd = 0, !.raw = 0, !.res = 0]

\* the transport call in progress returns r to the command
Return(l, r) ==
    [l EXCEPT !.bst = "none", !.dir = "none", !.tret = r,
              !.steps = Append(@, [fn |-> l.fn, n |-> l.size, ret |-> r])]

\* a header with the module id first
SendHeader_swapped(module_id, opcode, size) ==
    <<module_id, opcode>> \o put_unaligned_be16(size)

\* header[0] = opcode; header[1] = module_id; put_unaligned_be16(size, header + 2)
SendHeader(module_id, opcode, size) ==
    <<opcode, module_id>> \o put_unaligned_be16(size)

\* cdns_mhdp_mailbox_send() up to its first byte write
cdns_mhdp_mailbox_send(l, module_id, opcode, size, message) ==
    StartWrite([l EXCEPT !.fn = "send", !.module_id = module_id,
                         !.opcode = opcode, !.size = size, !.message = message,
                         !.header = SendHeader(module_id, opcode, size),
                         !.loop = "header", !.i = 0, !.tret = 0,
                         !.mbox_size = 0, !.buff = <<>>,
                         !.sent = <<>>, !.nread = 0, !.nx = 0, !.contig = TRUE,
                         !.steps = <<>>, !.nsend = @ + 1, !.rk = "none"],
               SendHeader(module_id, opcode, size)[1])

\* the body of cdns_mhdp_mailbox_send()'s loops after a byte write returned r
send_step(l, r) ==
    IF r # 0 THEN Return(l, r)
    ELSE IF l.loop = "header"
         THEN IF l.i + 1 < 4
              THEN StartWrite([l EXCEPT !.i = l.i + 1], l.header[l.i + 2])
              ELSE IF 0 < l.size
                   THEN StartWrite([l EXCEPT !.loop = "payload", !.i = 0],
                                   l.message[1])
                   ELSE Return(l, 0)
         ELSE IF l.i + 1 < l.size
              THEN StartWrite([l EXCEPT !.i = l.i + 1], l.message[l.i + 2])
              ELSE Return(l, 0)

\* cdns_mhdp_mailbox_validate_receive() up to its first byte read
cdns_mhdp_mailbox_validate_receive(l, module_id, opcode, req_size) ==
    StartRead([l EXCEPT !.fn = "validate_receive", !.module_id = module_id,
                        !.opcode = opcode, !.size = U16(req_size),
                        !.header = <<>>, !.mbox_size = 0,
                        !.loop = "header", !.i = 0,
                        !.nread = 0, !.nx = 0, !.contig = TRUE])

\* opcode != header[0] || module_id != header[1] || req_size != mbox_size
HeaderMismatch(opcode, module_id, req_size, header, mbox_size) ==
    \/ opcode # header[1]
    \/ module_id # header[2]
    \/ req_size # mbox_size

\* a declared length taken from the header's last byte alone
MboxSize_low(header) == header[4]

\* mbox_size = get_unaligned_be16(header + 2)
MboxSize(header) == get_unaligned_be16(SubSeq(header, 3, 4))

\* a drain loop that hands a failed read's error to its caller
DrainResult_propagate(r) == IF r < 0 THEN r ELSE -EINVAL

\* what the drain loop returns when a read fails or when it is through
DrainResult(r) == -EINVAL

\* the body of cdns_mhdp_mailbox_validate_receive()'s loops after a byte read
\* returned r
validate_receive_step(l, r) ==
    IF l.loop = "header"
    THEN IF r < 0 THEN Return(l, r)
         ELSE LET h == Append(l.header, r) IN
              IF l.i + 1 < 4
              THEN StartRead([l EXCEPT !.header = h, !.i = l.i + 1])
              ELSE LET l2 == [l EXCEPT !.header = h, !.mbox_size = MboxSize(h)]
                   IN  IF HeaderMismatch(l.opcode, l.module_id, l.size, h,
                                         MboxSize(h))
                       THEN IF 0 < MboxSize(h)
                            THEN StartRead([l2 EXCEPT !.loop = "drain", !.i = 0])
                            ELSE Return([l2 EXCEPT !.loop = "drain", !.i = 0],
                                        DrainResult(0))
                       ELSE Return(l2, 0)
    ELSE IF r < 0 THEN Return(l, DrainResult(r))
         ELSE IF l.i + 1 < l.mbox_size
              THEN StartRead([l EXCEPT !.i = l.i + 1])
              ELSE Return([l EXCEPT !.i = l.i + 1], DrainResult(r))

\* cdns_mhdp_mailbox_read_receive() up to its first byte read
cdns_mhdp_mailbox_read_receive(l, buff_size) ==
    LET l2 == [l EXCEPT !.fn = "read_receive", !.size = U16(buff_size),
                        !.buff = <<>>, !.loop = "payload", !.i = 0,
                        !.nread = 0, !.nx = 0, !.contig = TRUE]
    IN  IF 0 < U16(buff_size) THEN StartRead(l2) ELSE Return(l2, 0)

\* the body of cdns_mhdp_mailbox_read_receive()'s loop after a byte read
\* returned r
read_receive_step(l, r) ==
    IF r < 0 THEN Return(l, r)
    ELSE IF l.i + 1 < l.size
         THEN StartRead([l EXCEPT !.buff = Append(@, r), !.i = l.i + 1])
         ELSE Return([l EXCEPT !.buff = Append(@, r), !.i = l.i + 1], 0)

\* a firmware activation frame with its first two bytes exchanged
firmware_active_msg_swapped(enable) ==
    <<MB_MODULE_ID_GENERAL, GENERAL_MAIN_CONTROL, 0, 1,
      IF enable THEN FW_ACTIVE ELSE FW_STANDBY>>

\* msg[0..4] of cdns_mhdp_set_firmware_active
firmware_active_msg(enable) ==
    <<GENERAL_MAIN_CONTROL, MB_MODULE_ID_GENERAL, 0, 1,
      IF enable THEN FW_ACTIVE ELSE FW_STANDBY>>

\* cdns_mhdp_set_firmware_active() up to its first byte write
set_firmware_active_start(l, enable) ==
    StartWrite([l EXCEPT !.fn = "set_firmware_active", !.size = 5,
                         !.msg = firmware_active_msg(enable),
                         !.loop = "write", !.i = 0, !.tret = 0, !.buff = <<>>,
                         !.sent = <<>>, !.nread = 0, !.nx = 0, !.contig = TRUE,
                         !.steps = <<>>, !.rk = "none"],
               firmware_active_msg(enable)[1])

\* the body of cdns_mhdp_set_firmware_active()'s loops after a byte access
\* returned r
set_firmware_active_step(l, r) ==
    IF l.loop = "write"
    THEN IF r # 0 THEN Return(l, r)
         ELSE IF l.i + 1 < 5
              THEN StartWrite([l EXCEPT !.i = l.i + 1], l.msg[l.i + 2])
              ELSE StartRead([l EXCEPT !.loop = "read", !.i = 0])
    ELSE IF r < 0 THEN Return(l, r)
         ELSE IF l.i + 1 < 5
              THEN StartRead([l EXCEPT !.msg[l.i + 1] = r, !.i = l.i + 1])
              ELSE Return([l EXCEPT !.msg[l.i + 1] = r, !.i = l.i + 1], 0)

\* the caller of the byte access that returned r goes on
AfterByte(l, r) ==
    CASE l.fn = "send" -> send_step(l, r)
      [] l.fn = "validate_receive" -> validate_receive_step(l, r)
      [] l.fn = "read_receive" -> read_receive_step(l, r)
      [] l.fn = "set_firmware_active" -> set_firmware_active_step(l, r)

(* ------------------------------------------------------------------ *)
(* The firmware behind the mailbox (the environment)                   *)
(* ------------------------------------------------------------------ *)

\* a frame as the firmware puts it on the wire: the declared length is its own
FwFrame(opcode, module_id, declared, payload) ==
    <<opcode, module_id, (declared \div 256) % 256, declared % 256>> \o payload

\* the value bytes the firmware holds for the register whose address bytes are a
FwRegBytes(a) == IF a \in DOMAIN fwreg THEN fwreg[a] ELSE <<0, 0, 0, 0>>

\* the data bytes the firmware returns for a DPCD or an EDID read of n bytes
FwData(n) == [k \in 1..n |-> (17 * k) % 256]

\* the payloads with which the firmware answers request frame f as the protocol
\* asks (none for a request that has no response)
FwGood(f) ==
    LET req == SubSeq(f, 5, Len(f)) IN
    CASE f[2] = MB_MODULE_ID_GENERAL /\ f[1] = GENERAL_READ_REGISTER /\ Len(req) = 4 ->
            { req \o FwRegBytes(req) }
      [] f[2] = MB_MODULE_ID_DP_TX /\ f[1] = DPTX_READ_DPCD /\ Len(req) = 5 ->
            { req \o FwData(req[1] * 256 + req[2]) }
      [] f[2] = MB_MODULE_ID_DP_TX /\ f[1] = DPTX_WRITE_DPCD /\ Len(req) = 6 ->
            { SubSeq(req, 1, 5) }
      [] f[2] = MB_MODULE_ID_DP_TX /\ f[1] = DPTX_GET_EDID /\ Len(req) = 2 ->
            { <<n, req[1]>> \o FwData(n) : n \in 1..MaxEdidLen }
      [] f[2] = MB_MODULE_ID_DP_TX /\ f[1] = DPTX_HPD_STATE /\ Len(req) = 0 ->
            { <<s>> : s \in {0, 1} }
      [] f[2] = MB_MODULE_ID_DP_TX /\ f[1] = DPTX_READ_EVENT /\ Len(req) = 0 ->
            { <<0, e>> : e \in {0, EQ_PHASE_FINISHED, 255 - EQ_PHASE_FINISHED} }
      [] f[2] = MB_MODULE_ID_DP_TX /\ f[1] = DPTX_READ_LINK_STAT /\ Len(req) = 0 ->
            { <<bw, bw \div 5>> \o [k \in 1..8 |-> 0] : bw \in {10, 20} }
      [] f[2] = MB_MODULE_ID_GENERAL /\ f[1] = GENERAL_MAIN_CONTROL /\ Len(req) = 1 ->
            { <<req[1]>> }
      [] f[2] = MB_MODULE_ID_DP_TX /\ f[1] = DPTX_ADJUST_LT /\ Len(req) = 7 ->
            { put_unaligned_be16(6) \o put_unaligned_be24(W32(0, DP_LANE0_1_STATUS))
                \o FwData(6) }
      [] OTHER -> {}

\* the opcode of the frame that answers request frame f: the request's own,
\* but for DPTX_ADJUST_LT, which the firmware answers as it answers a DPCD read
FwOpcode(f) ==
    IF f[2] = MB_MODULE_ID_DP_TX /\ f[1] = DPTX_ADJUST_LT THEN DPTX_READ_DPCD ELSE f[1]

\* payload P with its k-th byte changed
Corrupt(P, k) == [P EXCEPT ![k] = (@ + 1) % 256]

\* the frames a firmware may answer request frame f with: the good ones, good
\* ones with one fault, nothing
FwResponses(f) ==
    UNION { {[kind |-> "good", bytes |-> FwFrame(FwOpcode(f), f[2], Len(P), P)],
             [kind |-> "bad_opcode", bytes |-> FwFrame((FwOpcode(f) + 1) % 256, f[2], Len(P), P)],
             [kind |-> "bad_module", bytes |-> FwFrame(FwOpcode(f), (f[2] + 1) % 256, Len(P), P)],
             [kind |-> "short", bytes |-> FwFrame(FwOpcode(f), f[2], Len(P) - 1, SubSeq(P, 1, Len(P) - 1))],
             [kind |-> "long", bytes |-> FwFrame(FwOpcode(f), f[2], Len(P) + 1, P \o <<0>>)],
             [kind |-> "underrun", bytes |-> FwFrame(FwOpcode(f), f[2], Len(P) + 1, P)],
             [kind |-> "wide", bytes |-> FwFrame(FwOpcode(f), f[2], Len(P) + 256, P)]}
            \cup {[kind |-> "corrupt", bytes |-> FwFrame(FwOpcode(f), f[2], Len(P), Corrupt(P, k))] :
                    k \in {j \in {1, 2, 3} : j <= Len(P)}}
          : P \in FwGood(f) }
    \cup {[kind |-> "none", bytes |-> <<>>]}

\* a loop-back channel in place of the firmware: the request itself comes back
FwLoopback(f) == {[kind |-> "loopback", bytes |-> f]}

\* the address bytes of the registers whose contents the firmware model keeps
\* (RegAddrs; the others are written and never read back)
FwRegs == {<<1, 2, 3, 4>>, <<0, 0, 0, 1>>}

\* the firmware's register file after request frame f: a register write stores
\* its value bytes under its address bytes
FwStore(f) ==
    IF /\ f[2] = MB_MODULE_ID_GENERAL /\ f[1] = GENERAL_WRITE_REGISTER
       /\ Len(f) = 12 /\ SubSeq(f, 5, 8) \in FwRegs
    THEN [a \in DOMAIN fwreg \cup {SubSeq(f, 5, 8)} |->
            IF a = SubSeq(f, 5, 8) THEN SubSeq(f, 9, 12) ELSE fwreg[a]]
    ELSE fwreg

(* ------------------------------------------------------------------ *)
(* One byte through the mailbox                                        *)
(* ------------------------------------------------------------------ *)

\* a poll that waits for the flag to be set
PollCond_set(val) == val # 0

\* the polling macro's cond: !val (mailbox_read), !full (mailbox_write)
PollCond(val) == val = 0

\* __timeout_us && ktime_compare(ktime_get(), __timeout) > 0
PollExpired(elapsed) == elapsed > MboxTimeoutTicks

\* what a read of MAILBOX_EMPTY_ADDR / MAILBOX_FULL_ADDR may return: EMPTY reads
\* set while the firmware has queued nothing
FlagSamples(l) == IF l.dir = "read" /\ rx = <<>> THEN {1} ELSE {0, 1}

\* a clock that starts again from 0 instead of passing MboxTimeoutTicks
ktime_get_wrapping(elapsed, d) == (elapsed + d) % (MboxTimeoutTicks + 1)

\* ktime_get() of the polling macro, as the age of its deadline: d ticks after
\* the previous look at the clock
ktime_get(elapsed, d) == elapsed + d

\* the byte access leaves the polling macro with -ETIMEDOUT
PollFail(l) ==
    AfterByte([l EXCEPT !.clear = FALSE, !.res = -ETIMEDOUT], -ETIMEDOUT)

\* the byte access leaves the polling macro with 0
PollPass(l, val) == [l EXCEPT !.bst = "xfer", !.clear = (val = 0)]

\* mhdp_readx_poll_timeout: one iteration of its loop, by caller p.  A firmware
\* that leaves EMPTY set until a read times out delivers nothing of what it
\* had queued.
mhdp_readx_poll_timeout(p) ==
    LET l == th[p] IN
    /\ l.bst = "poll"
    /\ \E val \in FlagSamples(l) :
         IF PollCond(val)
         THEN th' = [th EXCEPT ![p] = PollPass(l, val)] /\ UNCHANGED rx
         ELSE IF PollExpired(l.elapsed)
              THEN \E last \in FlagSamples(l) :
                     IF PollCond(last)
                     THEN th' = [th EXCEPT ![p] = PollPass(l, last)]
                          /\ UNCHANGED rx
                     ELSE th' = [th EXCEPT ![p] = PollFail(l)]
                          /\ rx' = IF l.dir = "read" THEN <<>> ELSE rx
              ELSE /\ \E d \in 1..SleepTicks :
                        th' = [th EXCEPT ![p] = [l EXCEPT !.elapsed = ktime_get(@, d)]]
                   /\ UNCHANGED rx
    /\ UNCHANGED <<fwreg, lastBy, dev, wrote>>

\* cdns_mhdp_bus_read(mhdp, MAILBOX0_RD_DATA) & 0xff
MailboxByte(raw) == raw % 256

\* the transfer of caller p's transport call stays in one piece
Contiguous(l, p) == IF l.nx = 0 THEN TRUE ELSE l.contig /\ lastBy = p

\* cdns_mhdp_mailbox_read, after the poll: the read of MAILBOX0_RD_DATA
MailboxReadData(p) ==
    LET l == th[p] IN
    /\ l.bst = "xfer" /\ l.dir = "read"
    /\ \E hi \in {0, 1} :
         LET raw == hi * 256 + (IF rx = <<>> THEN 0 ELSE Head(rx))
             l2 == [l EXCEPT !.rd = @ + 1, !.raw = raw, !.res = MailboxByte(raw),
                             !.nread = @ + 1, !.nx = @ + 1,
                             !.contig = Contiguous(l, p)]
         IN  th' = [th EXCEPT ![p] = AfterByte(l2, MailboxByte(raw))]
    /\ rx' = IF rx = <<>> THEN rx ELSE Tail(rx)
    /\ lastBy' = p
    /\ UNCHANGED <<fwreg, dev, wrote>>

\* cdp_dp_mailbox_write, after the poll: the write of MAILBOX0_WR_DATA;
\* the firmware answers the frame that the write completes
MailboxWriteData(p) ==
    LET l == th[p]
        l2 == AfterByte([l EXCEPT !.sent = Append(@, l.wval), !.res = 0,
                                  !.nx = @ + 1, !.contig = Contiguous(l, p)],
                        0)
    IN  /\ l.bst = "xfer" /\ l.dir = "write"
        /\ lastBy' = p
        /\ IF \/ l2.bst = "none" /\ l2.fn = "send"
              \/ l2.fn = "set_firmware_active" /\ l2.dir = "read"
           THEN \E resp \in IF l2.cmd = "mailbox_roundtrip"
                             THEN FwLoopback(l2.sent)
                             ELSE FwResponses(l2.sent) :
                  /\ th' = [th EXCEPT ![p] = [l2 EXCEPT !.rk = resp.kind]]
                  /\ rx' = rx \o resp.bytes
                  /\ fwreg' = FwStore(l2.sent)
           ELSE /\ th' = [th EXCEPT ![p] = l2]
                /\ UNCHANGED <<rx, fwreg>>
        /\ UNCHANGED <<dev, wrote>>

(* ------------------------------------------------------------------ *)
(* Command layer                                                       *)
(* ------------------------------------------------------------------ *)

\* caller p is outside every command
CanCall(p) == th[p].cpc \in {"idle", "done"}

\* caller p's transport call has returned into command c
Returned(p, c) ==
    th[p].cmd = c /\ th[p].cpc \notin {"idle", "done"} /\ th[p].bst = "none"

\* a caller enters command c with arguments arg
Begin(c, arg) == [IdleThread EXCEPT !.cmd = c, !.arg = arg, !.cpc = "entry"]

\* if (ret) goto err_...;  /  if (ret) continue;
Failed(ret) == ret # 0

\* the command returns ret
Done(l, ret) == [l EXCEPT !.cpc = "done", !.ret = ret]

\* the mailbox as a command finds it: drained, unless another caller is at work
RxAtCall(p) ==
    IF \A q \in Procs \ {p} : th[q].cpc \in {"idle", "done"} THEN <<>> ELSE rx

\* the register addresses and values callers pass
RegAddrs == {W32(0, 1), W32(258, 772)}
RegVals == {W32(4660, 22136), W32(57005, 48879)}
\* the register a caller writes
WriteAddrs == {W32(258, 772)}
\* the DPCD addresses callers pass: DP_LANE0_1_STATUS, and one above 24 bits
DpcdAddrs == {W32(0, 514), W32(256, 514)}

\* cdns_mhdp_reg_write: the request payload
reg_write_msg(addr, val) == put_unaligned_be32(addr) \o put_unaligned_be32(val)

\* cdns_mhdp_reg_write(mhdp, addr, val), from its entry or from the return of
\* its transport call
reg_write_flow(l) ==
    IF l.cpc = "entry"
    THEN [cdns_mhdp_mailbox_send(l, MB_MODULE_ID_GENERAL, GENERAL_WRITE_REGISTER,
                                 8, reg_write_msg(l.arg[1], l.arg[2]))
            EXCEPT !.cpc = "send"]
    ELSE Done(l, l.tret)

cdns_mhdp_reg_write(p) ==
    /\ \/ /\ CanCall(p)
          /\ \E addr \in WriteAddrs, val \in RegVals :
               th' = [th EXCEPT ![p] = reg_write_flow(Begin("reg_write", <<addr, val>>))]
          /\ rx' = RxAtCall(p)
          /\ UNCHANGED wrote
       \/ /\ Returned(p, "reg_write")
          /\ th' = [th EXCEPT ![p] = reg_write_flow(th[p])]
          /\ wrote' = IF th[p].tret = 0
                      THEN [a \in DOMAIN wrote \cup {th[p].arg[1]} |->
                              IF a = th[p].arg[1] THEN th[p].arg[2] ELSE wrote[a]]
                      ELSE wrote
          /\ UNCHANGED rx
    /\ UNCHANGED <<fwreg, lastBy, dev>>

\* a register read that takes any echoed address
reg_read_addr_any(msg, resp) == FALSE

\* Returned address value should be the same as requested:
\* memcmp(msg, resp, sizeof(msg)) is non-zero
reg_read_addr_differs(msg, resp) == SubSeq(resp, 1, 4) # msg

\* val = get_unaligned_be32(resp + 4); return val;  (a u32 through an int)
reg_read_value(resp) == ToInt32(get_unaligned_be32(SubSeq(resp, 5, 8)))

\* cdns_mhdp_reg_read(mhdp, addr)
reg_read_flow(l) ==
    CASE l.cpc = "entry" ->
            IF l.arg[1] = W32(0, 0) THEN Done(l, -EINVAL)
            ELSE [cdns_mhdp_mailbox_send(
                      [l EXCEPT !.msg = put_unaligned_be32(l.arg[1])],
                      MB_MODULE_ID_GENERAL, GENERAL_READ_REGISTER,
                      4, put_unaligned_be32(l.arg[1]))
                    EXCEPT !.cpc = "send"]
      [] l.cpc = "send" ->
            IF Failed(l.tret) THEN Done(l, l.tret)
            ELSE [cdns_mhdp_mailbox_validate_receive(
                      l, MB_MODULE_ID_GENERAL, GENERAL_READ_REGISTER, 8)
                    EXCEPT !.cpc = "validate"]
      [] l.cpc = "validate" ->
            IF Failed(l.tret) THEN Done(l, l.tret)
            ELSE [cdns_mhdp_mailbox_read_receive(l, 8) EXCEPT !.cpc = "read"]
      [] l.cpc = "read" ->
            IF Failed(l.tret) THEN Done(l, l.tret)
            ELSE IF reg_read_addr_differs(l.msg, l.buff) THEN Done(l, -EINVAL)
            ELSE Done(l, reg_read_value(l.buff))

cdns_mhdp_reg_read(p) ==
    /\ \/ /\ CanCall(p)
          /\ \E addr \in RegAddrs \cup {W32(0, 0)} :
               th' = [th EXCEPT ![p] = reg_read_flow(Begin("reg_read", <<addr>>))]
          /\ rx' = RxAtCall(p)
       \/ /\ Returned(p, "reg_read")
          /\ th' = [th EXCEPT ![p] = reg_read_flow(th[p])]
          /\ UNCHANGED rx
    /\ UNCHANGED <<fwreg, lastBy, dev, wrote>>


\* cdns_mhdp_reg_write_bit: the request payload
reg_write_bit_msg(addr, start_bit, bits_no, val) ==
    put_unaligned_be16(addr) \o <<start_bit, bits_no>> \o put_unaligned_be32(val)

\* cdns_mhdp_reg_write_bit(mhdp, addr, start_bit, bits_no, val)
reg_write_bit_flow(l) ==
    IF l.cpc = "entry"
    THEN [cdns_mhdp_mailbox_send(l, MB_MODULE_ID_DP_TX, DPTX_WRITE_FIELD, 8,
                                 reg_write_bit_msg(l.arg[1], l.arg[2], l.arg[3],
                                                   l.arg[4]))
            EXCEPT !.cpc = "send"]
    ELSE Done(l, l.tret)

cdns_mhdp_reg_write_bit(p) ==
    /\ \/ /\ CanCall(p)
          /\ th' = [th EXCEPT ![p] =
                      reg_write_bit_flow(
                          Begin("reg_write_bit", <<8708, 2, 1, W32(0, 0)>>))]
          /\ rx' = RxAtCall(p)
       \/ /\ Returned(p, "reg_write_bit")
          /\ th' = [th EXCEPT ![p] = reg_write_bit_flow(th[p])]
          /\ UNCHANGED rx
    /\ UNCHANGED <<fwreg, lastBy, dev, wrote>>

\* cdns_mhdp_dpcd_read: put_unaligned_be16(len, msg); put_unaligned_be24(addr, msg + 2)
dpcd_read_msg(addr, len) == put_unaligned_be16(len) \o put_unaligned_be24(addr)

\* cdns_mhdp_dpcd_read(mhdp, addr, data, len)
dpcd_read_flow(l) ==
    CASE l.cpc = "entry" ->
            [cdns_mhdp_mailbox_send(l, MB_MODULE_ID_DP_TX, DPTX_READ_DPCD, 5,
                                    dpcd_read_msg(l.arg[1], l.arg[2]))
               EXCEPT !.cpc = "send"]
      [] l.cpc = "send" ->
            IF Failed(l.tret) THEN Done(l, l.tret)
            ELSE [cdns_mhdp_mailbox_validate_receive(
                      l, MB_MODULE_ID_DP_TX, DPTX_READ_DPCD, 5 + l.arg[2])
                    EXCEPT !.cpc = "validate"]
      [] l.cpc = "validate" ->
            IF Failed(l.tret) THEN Done(l, l.tret)
            ELSE [cdns_mhdp_mailbox_read_receive(l, 5) EXCEPT !.cpc = "read"]
      [] l.cpc = "read" ->
            IF Failed(l.tret) THEN Done(l, l.tret)
            ELSE [cdns_mhdp_mailbox_read_receive([l EXCEPT !.reg = l.buff],
                                                 l.arg[2])
                    EXCEPT !.cpc = "read2"]
      [] l.cpc = "read2" -> Done(l, l.tret)

cdns_mhdp_dpcd_read(p) ==
    /\ \/ /\ CanCall(p)
          /\ \E len \in {1, 2} :
               th' = [th EXCEPT ![p] =
                        dpcd_read_flow(Begin("dpcd_read", <<W32(0, 514), len>>))]
          /\ rx' = RxAtCall(p)
       \/ /\ Returned(p, "dpcd_read")
          /\ th' = [th EXCEPT ![p] = dpcd_read_flow(th[p])]
          /\ UNCHANGED rx
    /\ UNCHANGED <<fwreg, lastBy, dev, wrote>>

\* cdns_mhdp_dpcd_write: the request payload
dpcd_write_msg(addr, value) ==
    put_unaligned_be16(1) \o put_unaligned_be24(addr) \o <<value>>

\* addr != get_unaligned_be24(reg + 2)
dpcd_write_addr_differs(addr, reg) ==
    addr # get_unaligned_be24(SubSeq(reg, 3, 5))

\* cdns_mhdp_dpcd_write(mhdp, addr, value)
dpcd_write_flow(l) ==
    CASE l.cpc = "entry" ->
            [cdns_mhdp_mailbox_send(l, MB_MODULE_ID_DP_TX, DPTX_WRITE_DPCD, 6,
                                    dpcd_write_msg(l.arg[1], l.arg[2]))
               EXCEPT !.cpc = "send"]
      [] l.cpc = "send" ->
            IF Failed(l.tret) THEN Done(l, l.tret)
            ELSE [cdns_mhdp_mailbox_validate_receive(
                      l, MB_MODULE_ID_DP_TX, DPTX_WRITE_DPCD, 5)
                    EXCEPT !.cpc = "validate"]
      [] l.cpc = "validate" ->
            IF Failed(l.tret) THEN Done(l, l.tret)
            ELSE [cdns_mhdp_mailbox_read_receive(l, 5) EXCEPT !.cpc = "read"]
      [] l.cpc = "read" ->
            IF Failed(l.tret) THEN Done(l, l.tret)
            ELSE IF dpcd_write_addr_differs(l.arg[1], l.buff)
                 THEN Done([l EXCEPT !.reg = l.buff], -EINVAL)
                 ELSE Done([l EXCEPT !.reg = l.buff], 0)

cdns_mhdp_dpcd_write(p) ==
    /\ \/ /\ CanCall(p)
          /\ \E addr \in DpcdAddrs :
               th' = [th EXCEPT ![p] =
                        dpcd_write_flow(Begin("dpcd_write", <<addr, 85>>))]
          /\ rx' = RxAtCall(p)
       \/ /\ Returned(p, "dpcd_write")
          /\ th' = [th EXCEPT ![p] = dpcd_write_flow(th[p])]
          /\ UNCHANGED rx
    /\ UNCHANGED <<fwreg, lastBy, dev, wrote>>

\* drm_dp_link_rate_to_bw_code(link_rate)
drm_dp_link_rate_to_bw_code(link_rate) == U8(link_rate \div 27000)

\* x | SCRAMBLER_EN, for a u8
OrScramblerEn(x) ==
    IF (x \div SCRAMBLER_EN) % 2 = 1 THEN U8(x) ELSE U8(x + SCRAMBLER_EN)

\* cdns_mhdp_set_host_cap: the request payload
set_host_cap_msg(flip) ==
    << drm_dp_link_rate_to_bw_code(link.rate),
       OrScramblerEn(link.num_lanes),
       VOLTAGE_LEVEL_2,
       PRE_EMPHASIS_LEVEL_3,
       PTS_ALL,
       FAST_LT_NOT_SUPPORT,
       IF flip THEN LANE_MAPPING_FLIPPED ELSE LANE_MAPPING_NORMAL,
       ENHANCED >>

\* cdns_mhdp_set_host_cap(mhdp, flip)
set_host_cap_flow(l) ==
    IF l.cpc = "entry"
    THEN [cdns_mhdp_mailbox_send(l, MB_MODULE_ID_DP_TX,
                                 DPTX_SET_HOST_CAPABILITIES, 8,
                                 set_host_cap_msg(l.arg[1]))
            EXCEPT !.cpc = "send"]
    ELSE Done(l, l.tret)

cdns_mhdp_set_host_cap(p) ==
    /\ \/ /\ CanCall(p)
          /\ \E flip \in BOOLEAN :
               th' = [th EXCEPT ![p] =
                        set_host_cap_flow(Begin("set_host_cap", <<flip>>))]
          /\ rx' = RxAtCall(p)
       \/ /\ Returned(p, "set_host_cap")
          /\ th' = [th EXCEPT ![p] = set_host_cap_flow(th[p])]
          /\ UNCHANGED rx
    /\ UNCHANGED <<fwreg, lastBy, dev, wrote>>

\* cdns_mhdp_event_config(mhdp)
event_config_flow(l) ==
    IF l.cpc = "entry"
    THEN [cdns_mhdp_mailbox_send(l, MB_MODULE_ID_DP_TX, DPTX_ENABLE_EVENT, 5,
                                 <<MHDP_EVENT_ENABLE, 0, 0, 0, 0>>)
            EXCEPT !.cpc = "send"]
    ELSE Done(l, l.tret)

cdns_mhdp_event_config(p) ==
    /\ \/ /\ CanCall(p)
          /\ th' = [th EXCEPT ![p] = event_config_flow(Begin("event_config", <<>>))]
          /\ rx' = RxAtCall(p)
       \/ /\ Returned(p, "event_config")
          /\ th' = [th EXCEPT ![p] = event_config_flow(th[p])]
          /\ UNCHANGED rx
    /\ UNCHANGED <<fwreg, lastBy, dev, wrote>>

\* an HPD query that reads its byte without validating the response header
get_hpd_status_flow_unvalidated(l) ==
    CASE l.cpc = "entry" ->
            [cdns_mhdp_mailbox_send(l, MB_MODULE_ID_DP_TX, DPTX_HPD_STATE, 0, <<>>)
               EXCEPT !.cpc = "send"]
      [] l.cpc = "send" ->
            IF Failed(l.tret) THEN Done(l, l.tret)
            ELSE [cdns_mhdp_mailbox_read_receive(l, 1) EXCEPT !.cpc = "read"]
      [] l.cpc = "read" ->
            IF Failed(l.tret) THEN Done(l, l.tret) ELSE Done(l, l.buff[1])

\* cdns_mhdp_get_hpd_status(mhdp)
get_hpd_status_flow(l) ==
    CASE l.cpc = "entry" ->
            [cdns_mhdp_mailbox_send(l, MB_MODULE_ID_DP_TX, DPTX_HPD_STATE, 0, <<>>)
               EXCEPT !.cpc = "send"]
      [] l.cpc = "send" ->
            IF Failed(l.tret) THEN Done(l, l.tret)
            ELSE [cdns_mhdp_mailbox_validate_receive(
                      l, MB_MODULE_ID_DP_TX, DPTX_HPD_STATE, 1)
                    EXCEPT !.cpc = "validate"]
      [] l.cpc = "validate" ->
            IF Failed(l.tret) THEN Done(l, l.tret)
            ELSE [cdns_mhdp_mailbox_read_receive(l, 1) EXCEPT !.cpc = "read"]
      [] l.cpc = "read" ->
            IF Failed(l.tret) THEN Done(l, l.tret) ELSE Done(l, l.buff[1])

cdns_mhdp_get_hpd_status(p) ==
    /\ \/ /\ CanCall(p)
          /\ th' = [th EXCEPT ![p] =
                      get_hpd_status_flow(Begin("get_hpd_status", <<>>))]
          /\ rx' = RxAtCall(p)
       \/ /\ Returned(p, "get_hpd_status")
          /\ th' = [th EXCEPT ![p] = get_hpd_status_flow(th[p])]
          /\ UNCHANGED rx
    /\ UNCHANGED <<fwreg, lastBy, dev, wrote>>

\* cdns_mhdp_get_edid_block: msg[0] = block / 2; msg[1] = block % 2;
get_edid_block_msg(block) == << U8(block \div 2), U8(block % 2) >>

\* a check of the response's length byte alone
edid_reg_matches_length(reg, block, length) == reg[1] = length

\* reg[0] == length && reg[1] == block / 2
edid_reg_matches(reg, block, length) == reg[1] = length /\ reg[2] = block \div 2

\* one try of cdns_mhdp_get_edid_block's loop starts (the loop's i is l.att)
edid_try(l) ==
    [cdns_mhdp_mailbox_send([l EXCEPT !.reg = <<>>],
                            MB_MODULE_ID_DP_TX, DPTX_GET_EDID, 2,
                            get_edid_block_msg(l.arg[1]))
       EXCEPT !.cpc = "send"]

\* "continue", or the end of the loop's body, with ret as it stands: i++, and
\* the loop goes on while i < 4; after the loop the function returns ret
edid_continue(l, ret) ==
    IF l.att + 1 < EDID_TRIES
    THEN edid_try([l EXCEPT !.att = l.att + 1])
    ELSE Done([l EXCEPT !.att = l.att + 1], ret)

\* cdns_mhdp_get_edid_block(data, edid, block, length)
get_edid_block_flow(l) ==
    CASE l.cpc = "entry" -> edid_try(l)
      [] l.cpc = "send" ->
            IF Failed(l.tret) THEN edid_continue(l, l.tret)
            ELSE [cdns_mhdp_mailbox_validate_receive(
                      l, MB_MODULE_ID_DP_TX, DPTX_GET_EDID, 2 + l.arg[2])
                    EXCEPT !.cpc = "validate"]
      [] l.cpc = "validate" ->
            IF Failed(l.tret) THEN edid_continue(l, l.tret)
            ELSE [cdns_mhdp_mailbox_read_receive(l, 2) EXCEPT !.cpc = "read"]
      [] l.cpc = "read" ->
            IF Failed(l.tret) THEN edid_continue(l, l.tret)
            ELSE [cdns_mhdp_mailbox_read_receive([l EXCEPT !.reg = l.buff],
                                                 l.arg[2])
                    EXCEPT !.cpc = "read2"]
      [] l.cpc = "read2" ->
            IF Failed(l.tret) THEN edid_continue(l, l.tret)
            ELSE IF edid_reg_matches(l.reg, l.arg[1], l.arg[2])
                 THEN Done([l EXCEPT !.seen = @ \cup {l.reg}], l.tret)
                 ELSE edid_continue([l EXCEPT !.seen = @ \cup {l.reg}], l.tret)

cdns_mhdp_get_edid_block(p) ==
    /\ \/ /\ CanCall(p)
          /\ \E block \in {0, 3} : \E length \in {MaxEdidLen - (block % 2)} :
               th' = [th EXCEPT ![p] =
                        get_edid_block_flow(Begin("get_edid_block", <<block, length>>))]
          /\ rx' = RxAtCall(p)
       \/ /\ Returned(p, "get_edid_block")
          /\ th' = [th EXCEPT ![p] = get_edid_block_flow(th[p])]
          /\ UNCHANGED rx
    /\ UNCHANGED <<fwreg, lastBy, dev, wrote>>

\* cdns_mhdp_set_video_status: msg = !!active
set_video_status_msg(active) == << IF active # 0 THEN 1 ELSE 0 >>

\* cdns_mhdp_set_video_status(mhdp, active)
set_video_status_flow(l) ==
    IF l.cpc = "entry"
    THEN [cdns_mhdp_mailbox_send(l, MB_MODULE_ID_DP_TX, DPTX_SET_VIDEO, 1,
                                 set_video_status_msg(l.arg[1]))
            EXCEPT !.cpc = "send"]
    ELSE Done(l, l.tret)

cdns_mhdp_set_video_status(p) ==
    /\ \/ /\ CanCall(p)
          /\ \E active \in {0, 2} :
               th' = [th EXCEPT ![p] =
                        set_video_status_flow(Begin("set_video_status", <<active>>))]
          /\ rx' = RxAtCall(p)
       \/ /\ Returned(p, "set_video_status")
          /\ th' = [th EXCEPT ![p] = set_video_status_flow(th[p])]
          /\ UNCHANGED rx
    /\ UNCHANGED <<fwreg, lastBy, dev, wrote>>

\* A caller of the exported transport functions over a loop-back channel:
\* cdns_mhdp_mailbox_send(module_id, opcode, n, payload), then
\* cdns_mhdp_mailbox_validate_receive(module_id, opcode, n), then
\* cdns_mhdp_mailbox_read_receive(buff, n), each only if the one before
\* returned 0
mailbox_roundtrip_flow(l) ==
    CASE l.cpc = "entry" ->
            [cdns_mhdp_mailbox_send(l, l.arg[1], l.arg[2], Len(l.arg[3]), l.arg[3])
               EXCEPT !.cpc = "send"]
      [] l.cpc = "send" ->
            IF Failed(l.tret) THEN Done(l, l.tret)
            ELSE [cdns_mhdp_mailbox_validate_receive(l, l.arg[1], l.arg[2],
                                                     Len(l.arg[3]))
                    EXCEPT !.cpc = "validate"]
      [] l.cpc = "validate" ->
            IF Failed(l.tret) THEN Done(l, l.tret)
            ELSE [cdns_mhdp_mailbox_read_receive(l, Len(l.arg[3]))
                    EXCEPT !.cpc = "read"]
      [] l.cpc = "read" -> Done(l, l.tret)

\* the payloads the loop-back caller sends
RoundtripPayloads ==
    {<<>>, <<171>>, <<1, 2, 255>>, [k \in 1..(256 + MaxEdidLen) |-> (3 * k) % 256]}

mailbox_roundtrip(p) ==
    /\ \/ /\ CanCall(p)
          /\ \E module_id \in {MB_MODULE_ID_DP_TX, MB_MODULE_ID_GENERAL},
                opcode \in {0, 255},
                payload \in RoundtripPayloads :
               th' = [th EXCEPT ![p] =
                        mailbox_roundtrip_flow(
                            Begin("mailbox_roundtrip", <<module_id, opcode, payload>>))]
          /\ rx' = RxAtCall(p)
       \/ /\ Returned(p, "mailbox_roundtrip")
          /\ th' = [th EXCEPT ![p] = mailbox_roundtrip_flow(th[p])]
          /\ UNCHANGED rx
    /\ UNCHANGED <<fwreg, lastBy, dev, wrote>>

(* ------------------------------------------------------------------ *)
(* Link training                                                       *)
(* ------------------------------------------------------------------ *)

\* the command notes what its latest transport call returned, and whether it
\* read an event whose second byte has the equalization-finished bit set
Noted(l) ==
    [l EXCEPT !.hist =
        Append(@, [fn |-> l.fn, op |-> l.opcode, ret |-> l.tret,
                   flag |-> /\ l.fn = "read_receive" /\ l.opcode = DPTX_READ_EVENT
                            /\ l.tret = 0
                            /\ l.buff[2] \in {e \in 0..255 : (e \div 32) % 2 = 1}])]

\* event[1] & EQ_PHASE_FINISHED
eq_phase_finished(event) == (event[2] \div EQ_PHASE_FINISHED) % 2 = 1

\* drm_dp_bw_code_to_link_rate(status[0])
drm_dp_bw_code_to_link_rate(link_bw) == link_bw * 27000

\* cdns_mhdp_get_training_status(): mhdp->dp.link after the status was read
training_status_link(status) ==
    [rate |-> drm_dp_bw_code_to_link_rate(status[1]), num_lanes |-> status[2]]

\* cdns_mhdp_get_training_status() up to its send
get_training_status(l) ==
    [cdns_mhdp_mailbox_send(l, MB_MODULE_ID_DP_TX, DPTX_READ_LINK_STAT, 0, <<>>)
       EXCEPT !.cpc = "stat_send"]

\* a train_link that reads the link status whatever training_start returned
training_start_returns_ignored(l, ret) == get_training_status(l)

\* cdns_mhdp_train_link() after cdns_mhdp_training_start() returned ret
training_start_returns(l, ret) ==
    IF Failed(ret) THEN Done(l, ret) ELSE get_training_status(l)

\* a training_start that returns 0 when its deadline has passed
training_poll_lenient(l, d) ==
    IF l.now < TrainTimeoutTicks
    THEN [cdns_mhdp_mailbox_send([l EXCEPT !.now = @ + d], MB_MODULE_ID_DP_TX,
                                 DPTX_READ_EVENT, 0, <<>>)
            EXCEPT !.cpc = "poll_send"]
    ELSE training_start_returns(l, 0)

\* cdns_mhdp_training_start(): while (time_before(jiffies, timeout)), with d
\* the ticks that pass until the loop's condition is looked at again
training_poll(l, d) ==
    IF l.now < TrainTimeoutTicks
    THEN [cdns_mhdp_mailbox_send([l EXCEPT !.now = @ + d], MB_MODULE_ID_DP_TX,
                                 DPTX_READ_EVENT, 0, <<>>)
            EXCEPT !.cpc = "poll_send"]
    ELSE training_start_returns(l, -ETIMEDOUT)

\* cdns_mhdp_train_link(mhdp): cdns_mhdp_training_start(), then
\* cdns_mhdp_get_training_status()
train_link_flow(l0, d) ==
    LET l == IF l0.cpc = "entry" THEN l0 ELSE Noted(l0) IN
    CASE l.cpc = "entry" ->
            [cdns_mhdp_mailbox_send(l, MB_MODULE_ID_DP_TX, DPTX_TRAINING_CONTROL,
                                    1, <<LINK_TRAINING_RUN>>)
               EXCEPT !.cpc = "start"]
      [] l.cpc = "start" ->
            IF Failed(l.tret) THEN training_start_returns(l, l.tret)
            ELSE training_poll([l EXCEPT !.now = 0], d)
      [] l.cpc = "poll_send" ->
            IF Failed(l.tret) THEN training_start_returns(l, l.tret)
            ELSE [cdns_mhdp_mailbox_validate_receive(
                      l, MB_MODULE_ID_DP_TX, DPTX_READ_EVENT, 2)
                    EXCEPT !.cpc = "poll_validate"]
      [] l.cpc = "poll_validate" ->
            IF Failed(l.tret) THEN training_start_returns(l, l.tret)
            ELSE [cdns_mhdp_mailbox_read_receive(l, 2) EXCEPT !.cpc = "poll_read"]
      [] l.cpc = "poll_read" ->
            IF Failed(l.tret) THEN training_start_returns(l, l.tret)
            ELSE IF eq_phase_finished(l.buff)
                 THEN training_start_returns(l, 0)
                 ELSE training_poll(l, d)
      [] l.cpc = "stat_send" ->
            IF Failed(l.tret) THEN Done(l, l.tret)
            ELSE [cdns_mhdp_mailbox_validate_receive(
                      l, MB_MODULE_ID_DP_TX, DPTX_READ_LINK_STAT, 10)
                    EXCEPT !.cpc = "stat_validate"]
      [] l.cpc = "stat_validate" ->
            IF Failed(l.tret) THEN Done(l, l.tret)
            ELSE [cdns_mhdp_mailbox_read_receive(l, 10) EXCEPT !.cpc = "stat_read"]
      [] l.cpc = "stat_read" -> Done(l, l.tret)

\* a status query that stores what it has read of the status so far, whatever
\* cdns_mhdp_mailbox_read_receive returned
link_after_status_unchecked(l, lnk) ==
    IF l.cpc = "stat_read" /\ Len(l.buff) >= 2
    THEN training_status_link(l.buff) ELSE lnk

\* mhdp->dp.link after the step of cdns_mhdp_train_link that caller l takes:
\* cdns_mhdp_get_training_status() assigns it once its read_receive returned 0
link_after_status(l, lnk) ==
    IF l.cpc = "stat_read" /\ ~Failed(l.tret)
    THEN training_status_link(l.buff) ELSE lnk

cdns_mhdp_train_link(p) ==
    /\ \/ /\ CanCall(p)
          /\ th' = [th EXCEPT ![p] =
                      train_link_flow([Begin("train_link", <<>>) EXCEPT !.old = link], 1)]
          /\ rx' = RxAtCall(p)
          /\ UNCHANGED link
       \/ /\ Returned(p, "train_link")
          /\ \E d \in 1..TrainSleepTicks :
               th' = [th EXCEPT ![p] = train_link_flow(th[p], d)]
          /\ link' = link_after_status(th[p], link)
          /\ UNCHANGED rx
    /\ UNCHANGED <<fwreg, lastBy, wrote, fw_version, pcie, bus>>

(* ------------------------------------------------------------------ *)
(* Video configuration                                                 *)
(* ------------------------------------------------------------------ *)

\* mhdp->mode but for its clock: the timings of 1920x1080
mode ==
    [hdisplay |-> 1920, hsync_start |-> 2008, hsync_end |-> 2052, htotal |-> 2200,
     vdisplay |-> 1080, vsync_start |-> 1084, vsync_end |-> 1089, vtotal |-> 1125]

\* bit_per_pix = (color_fmt == YCBCR_4_2_2) ? color_depth * 2 : color_depth * 3
bit_per_pix(video) ==
    U8(IF video.color_fmt = YCBCR_4_2_2 THEN video.color_depth * 2
       ELSE video.color_depth * 3)

\* link_rate = mhdp->dp.link.rate / 1000
link_rate_of(lnk) == lnk.rate \div 1000

\* symbol = (u64) tu_size_reg * mode->clock * bit_per_pix;
\* do_div(symbol, mhdp->dp.link.num_lanes * link_rate * 8)
valid_symbol(tu_size_reg, video, lnk) ==
    (tu_size_reg * video.clock * bit_per_pix(video))
        \div (lnk.num_lanes * link_rate_of(lnk) * 8)

\* a - b < c with a an int and b a u64: the difference is taken modulo 2^64,
\* so that it is huge, and not below c, when b exceeds a
u64_diff_below(a, b, c) == IF a >= b THEN a - b < c ELSE FALSE

\* a search that takes the remainders 850 and 100 for out of range
tu_rejected_strict(tu_size_reg, symbol, rem) ==
    \/ symbol <= 1
    \/ u64_diff_below(tu_size_reg, symbol, 4)
    \/ rem >= 850
    \/ rem <= 100

\* the do-while's condition:
\* (symbol <= 1) || (tu_size_reg - symbol < 4) || (rem > 850) || (rem < 100)
tu_rejected(tu_size_reg, symbol, rem) ==
    \/ symbol <= 1
    \/ u64_diff_below(tu_size_reg, symbol, 4)
    \/ rem > 850
    \/ rem < 100

\* the do-while loop of cdns_mhdp_config_video, entered with tu_size_reg
RECURSIVE tu_search(_, _, _)
tu_search(tu_size_reg, video, lnk) ==
    LET tu == U8(tu_size_reg + 2)
        rem == valid_symbol(tu, video, lnk) % 1000
        symbol == valid_symbol(tu, video, lnk) \div 1000
    IN  IF tu > TU_SIZE_MAX
        THEN [ret |-> -EINVAL, tu_size_reg |-> tu, symbol |-> symbol, rem |-> rem]
        ELSE IF tu_rejected(tu, symbol, rem)
             THEN tu_search(tu, video, lnk)
             ELSE [ret |-> 0, tu_size_reg |-> tu, symbol |-> symbol, rem |-> rem]

\* val = symbol + (tu_size_reg << 8); val |= TU_CNT_RST_EN
framer_tu_val(t) == ToW32(BitOr(t.symbol + t.tu_size_reg * 256, TU_CNT_RST_EN))

\* the FIFO buffer size
fifo_val(t, video, lnk) ==
    LET v1 == ((video.clock * (t.symbol + 1)) \div 1000 + link_rate_of(lnk))
        v2 == v1 \div (lnk.num_lanes * link_rate_of(lnk))
    IN  ToW32((8 * (t.symbol + 1)) \div bit_per_pix(video) - v2 + 2)

\* the switch on video->color_depth
bcs_of(color_depth) ==
    CASE color_depth = 6 -> 1 [] color_depth = 8 -> 2 [] color_depth = 10 -> 4
      [] color_depth = 12 -> 8 [] color_depth = 16 -> 16

\* cdns_mhdp_get_msa_misc(video, mode)
cdns_mhdp_get_msa_misc(video) ==
    LET val0 == CASE video.color_fmt \in {PXL_RGB, Y_ONLY} -> 0
                  [] video.color_fmt = YCBCR_4_4_4 -> 6 + BT_601 * 8
                  [] video.color_fmt = YCBCR_4_2_2 -> 5 + BT_601 * 8
                  [] video.color_fmt = YCBCR_4_2_0 -> 5
        val1 == CASE video.color_depth = 6 -> 0 [] video.color_depth = 8 -> 1
                  [] video.color_depth = 10 -> 2 [] video.color_depth = 12 -> 3
                  [] video.color_depth = 16 -> 4
    IN  2 * val0 + 32 * val1 + (IF video.color_fmt = Y_ONLY THEN 16384 ELSE 0)

\* the k-th register write of cdns_mhdp_config_video: <<register, value>>
video_write(k, t, video, lnk) ==
    LET m == mode IN
    CASE k = 1 -> <<BND_HSYNC2VSYNC, W32(0, VIF_BYPASS_INTERLACE)>>
      [] k = 2 -> <<HSYNC2VSYNC_POL_CTRL, W32(0, 0)>>
      [] k = 3 -> <<DP_FRAMER_TU, framer_tu_val(t)>>
      [] k = 4 -> <<DP_VC_TABLE_15, fifo_val(t, video, lnk)>>
      [] k = 5 -> <<DP_FRAMER_PXL_REPR,
                    ToW32(bcs_of(video.color_depth) + video.color_fmt * 256)>>
      [] k = 6 -> <<DP_FRAMER_SP,
                    W32(0, BitOr(IF video.h_sync_polarity # 0 THEN DP_FRAMER_SP_HSP ELSE 0,
                                 IF video.v_sync_polarity # 0 THEN DP_FRAMER_SP_VSP ELSE 0))>>
      [] k = 7 -> <<DP_FRONT_BACK_PORCH,
                    W32(U16(m.hsync_start - m.hdisplay), U16(m.htotal - m.hsync_end))>>
      [] k = 8 -> <<DP_BYTE_COUNT, ToW32((m.hdisplay * bit_per_pix(video)) \div 8)>>
      [] k = 9 -> <<MSA_HORIZONTAL_0, W32(U16(m.htotal - m.hsync_start), m.htotal)>>
      [] k = 10 -> <<MSA_HORIZONTAL_1,
                     W32(m.hdisplay, BitOr(m.hsync_end - m.hsync_start,
                                           video.h_sync_polarity * 32768))>>
      [] k = 11 -> <<MSA_VERTICAL_0, W32(U16(m.vtotal - m.vsync_start), m.vtotal)>>
      [] k = 12 -> <<MSA_VERTICAL_1,
                     W32(m.vdisplay, BitOr(m.vsync_end - m.vsync_start,
                                           video.v_sync_polarity * 32768))>>
      [] k = 13 -> <<MSA_MISC, ToW32(cdns_mhdp_get_msa_misc(video))>>
      [] k = 14 -> <<STREAM_CONFIG, W32(0, 1)>>
      [] k = 15 -> <<DP_HORIZONTAL, W32(m.hdisplay, m.hsync_end - m.hsync_start)>>
      [] k = 16 -> <<DP_VERTICAL_0, W32(U16(m.vtotal - m.vsync_start), m.vdisplay)>>
      [] k = 17 -> <<DP_VERTICAL_1, W32(0, m.vtotal)>>

\* the number of cdns_mhdp_reg_write calls in cdns_mhdp_config_video; the call
\* after them is cdns_mhdp_reg_write_bit(mhdp, DP_VB_ID, 2, 1, 0)
VideoRegWrites == 17

\* the writes whose result cdns_mhdp_config_video tests with "if (ret) goto
\* err_config_video": all but the write of the FIFO buffer size
video_write_checked(k) == k # 4

\* cdns_mhdp_config_video issues its k-th write
video_issue(l, k) ==
    LET t == tu_search(TU_SIZE, l.arg[1], link)
        w == video_write(k, t, l.arg[1], link)
    IN  IF k <= VideoRegWrites
        THEN [cdns_mhdp_mailbox_send([l EXCEPT !.att = k], MB_MODULE_ID_GENERAL,
                                     GENERAL_WRITE_REGISTER, 8,
                                     reg_write_msg(W32(0, w[1]), w[2]))
                EXCEPT !.cpc = "write"]
        ELSE [cdns_mhdp_mailbox_send([l EXCEPT !.att = k], MB_MODULE_ID_DP_TX,
                                     DPTX_WRITE_FIELD, 8,
                                     reg_write_bit_msg(DP_VB_ID, 2, 1, W32(0, 0)))
                EXCEPT !.cpc = "write"]

\* the command notes what its latest register write returned
NotedWrite(l) ==
    [l EXCEPT !.hist = Append(@, [fn |-> "reg_write", op |-> l.att,
                                  ret |-> l.tret, flag |-> FALSE])]

\* cdns_mhdp_config_video(mhdp)
config_video_flow(l0) ==
    IF l0.cpc = "entry" THEN video_issue(l0, 1)
    ELSE LET l == NotedWrite(l0)
             k == l.att
         IN  IF k > VideoRegWrites THEN Done(l, l.tret)
             ELSE IF video_write_checked(k) /\ Failed(l.tret) THEN Done(l, l.tret)
             ELSE IF k = 2 /\ tu_search(TU_SIZE, l.arg[1], link).ret # 0
                  THEN Done(l, tu_search(TU_SIZE, l.arg[1], link).ret)
                  ELSE video_issue(l, k + 1)

\* mhdp->video_info and mode->clock as callers set them
VideoInputs ==
    {[clock |-> c, color_depth |-> 8, color_fmt |-> PXL_RGB,
      h_sync_polarity |-> 1, v_sync_polarity |-> 0] :
        c \in {148500, 137250, 135000, 1000}}

\* the link rates and lane counts that training leaves in mhdp->dp.link
VideoLinks == {[rate |-> 540000, num_lanes |-> 4], [rate |-> 162000, num_lanes |-> 1]}

cdns_mhdp_config_video(p) ==
    /\ \/ /\ CanCall(p)
          /\ \E video \in VideoInputs :
               th' = [th EXCEPT ![p] = config_video_flow(Begin("config_video", <<video>>))]
          /\ rx' = RxAtCall(p)
       \/ /\ Returned(p, "config_video")
          /\ th' = [th EXCEPT ![p] = config_video_flow(th[p])]
          /\ UNCHANGED rx
    /\ UNCHANGED <<fwreg, lastBy, dev, wrote>>

(* ------------------------------------------------------------------ *)
(* Link training adjustment                                            *)
(* ------------------------------------------------------------------ *)

\* an adjustment that takes any lane count
adjust_lt_nlanes_any(nlanes) == TRUE

\* !(nlanes != 4 && nlanes != 2 && nlanes != 1)
adjust_lt_nlanes_valid(nlanes) == ~(nlanes # 4 /\ nlanes # 2 /\ nlanes # 1)

\* u8 payload[7], filled for nlanes lanes; stack is what the array held before
adjust_lt_payload(nlanes, udelay, lanes_data, stack) ==
    <<nlanes>> \o put_unaligned_be16(udelay)
        \o [k \in 1..4 |-> IF k <= nlanes THEN lanes_data[k] ELSE stack]

\* cdns_mhdp_adjust_lt(mhdp, nlanes, udelay, lanes_data, dpcd)
adjust_lt_flow(l) ==
    CASE l.cpc = "entry" ->
            IF ~adjust_lt_nlanes_valid(l.arg[1]) THEN Done(l, -EINVAL)
            ELSE [cdns_mhdp_mailbox_send(
                      l, MB_MODULE_ID_DP_TX, DPTX_ADJUST_LT, 7,
                      adjust_lt_payload(l.arg[1], l.arg[2], l.arg[3], l.arg[4]))
                    EXCEPT !.cpc = "send"]
      [] l.cpc = "send" ->
            IF Failed(l.tret) THEN Done(l, l.tret)
            ELSE [cdns_mhdp_mailbox_validate_receive(
                      l, MB_MODULE_ID_DP_TX, DPTX_READ_DPCD, 5 + 6)
                    EXCEPT !.cpc = "validate"]
      [] l.cpc = "validate" ->
            IF Failed(l.tret) THEN Done(l, l.tret)
            ELSE [cdns_mhdp_mailbox_read_receive(l, 5) EXCEPT !.cpc = "read"]
      [] l.cpc = "read" ->
            IF Failed(l.tret) THEN Done(l, l.tret)
            ELSE IF get_unaligned_be24(SubSeq(l.buff, 3, 5)) # W32(0, DP_LANE0_1_STATUS)
                 THEN Done([l EXCEPT !.reg = l.buff], l.tret)
                 ELSE [cdns_mhdp_mailbox_read_receive([l EXCEPT !.reg = l.buff], 6)
                         EXCEPT !.cpc = "read2"]
      [] l.cpc = "read2" -> Done(l, l.tret)

\* the lane counts callers pass
LaneCounts == {0, 1, 2, 3, 4}

\* stack is the byte the unset part of payload[] holds
cdns_mhdp_adjust_lt(p) ==
    /\ \/ /\ CanCall(p)
          /\ \E nlanes \in LaneCounts, stack \in {0, 255} :
               th' = [th EXCEPT ![p] =
                        adjust_lt_flow(Begin("adjust_lt",
                                             <<nlanes, 400, <<1, 2, 3, 4>>, stack>>))]
          /\ rx' = RxAtCall(p)
       \/ /\ Returned(p, "adjust_lt")
          /\ th' = [th EXCEPT ![p] = adjust_lt_flow(th[p])]
          /\ UNCHANGED rx
    /\ UNCHANGED <<fwreg, lastBy, dev, wrote>>

(* ------------------------------------------------------------------ *)
(* Firmware load and activation                                        *)
(* ------------------------------------------------------------------ *)

\* cdns_mhdp_set_firmware_active(mhdp, enable)
cdns_mhdp_set_firmware_active(p) ==
    /\ \/ /\ CanCall(p)
          /\ \E enable \in BOOLEAN :
               th' = [th EXCEPT ![p] =
                        set_firmware_active_start(
                            Begin("set_firmware_active", <<enable>>), enable)]
          /\ rx' = RxAtCall(p)
       \/ /\ Returned(p, "set_firmware_active")
          /\ th' = [th EXCEPT ![p] = Done(th[p], th[p].tret)]
          /\ UNCHANGED rx
    /\ UNCHANGED <<fwreg, lastBy, dev, wrote>>

\* cdns_mhdp_bus_write(val, mhdp, offset), as the load notes it
bus_write(l, val, offset) ==
    [l EXCEPT !.hist = Append(@, [fn |-> "bus_write", op |-> offset, val |-> val])]

\* a load that hands the poll's own result to its caller
alive_failure_passed(ret) == ret

\* if (ret < 0) return -EINVAL;
alive_failure(ret) == -EINVAL

\* cdns_mhdp_load_firmware(mhdp, i_mem, i_size, d_mem, d_size) up to the poll
\* of KEEP_ALIVE; arg is <<i_mem, i_size, d_mem, d_size>>
load_firmware_flow(l) ==
    CASE l.cpc = "entry" ->
            [bus_write(l, APB_RESET_ALL, APB_CTRL) EXCEPT !.cpc = "imem", !.i = 0]
      [] l.cpc = "imem" ->
            IF l.i < l.arg[2]
            THEN [bus_write(l, l.arg[1][l.i \div 4 + 1], ADDR_IMEM + l.i)
                    EXCEPT !.i = l.i + 4]
            ELSE [l EXCEPT !.cpc = "dmem", !.i = 0]
      [] l.cpc = "dmem" ->
            IF l.i < l.arg[4]
            THEN [bus_write(l, l.arg[3][l.i \div 4 + 1], ADDR_DMEM + l.i)
                    EXCEPT !.i = l.i + 4]
            ELSE [bus_write(l, 0, APB_CTRL)
                    EXCEPT !.cpc = "alive", !.bst = "alive", !.elapsed = 0]

\* the poll of KEEP_ALIVE is over with ret
load_firmware_polled(l, ret) ==
    IF ret < 0 THEN Done([l EXCEPT !.bst = "none"], alive_failure(ret))
    ELSE [l EXCEPT !.bst = "none", !.cpc = "version"]

\* the firmware images callers load: words and their size in bytes
FwImages == {[mem |-> <<>>, size |-> 0],
             [mem |-> <<W32(1, 2)>>, size |-> 4],
             [mem |-> <<W32(3, 4), W32(65535, 0)>>, size |-> 8]}

\* what VER_L, VER_H, VER_LIB_L_ADDR and VER_LIB_H_ADDR may read as
FwVersionRegs == {<<W32(0, 1), W32(0, 2), W32(0, 3), W32(0, 4)>>,
                  <<W32(7, 513), W32(0, 0), W32(0, 255), W32(1, 256)>>}

\* mhdp->fw_version from the four registers: each is taken & 0xff
fw_version_of(regs) == [k \in 1..4 |-> regs[k][2] % 256]

cdns_mhdp_load_firmware(p) ==
    /\ \/ /\ CanCall(p)
          /\ \E im \in FwImages, dm \in FwImages :
               th' = [th EXCEPT ![p] =
                        load_firmware_flow(
                            [Begin("load_firmware", <<im.mem, im.size, dm.mem, dm.size>>)
                               EXCEPT !.old = fw_version])]
          /\ UNCHANGED fw_version
       \/ /\ Returned(p, "load_firmware") /\ th[p].cpc \in {"imem", "dmem"}
          /\ th' = [th EXCEPT ![p] = load_firmware_flow(th[p])]
          /\ UNCHANGED fw_version
       \/ /\ Returned(p, "load_firmware") /\ th[p].cpc = "version"
          /\ \E regs \in FwVersionRegs :
               fw_version' = fw_version_of(regs)
          /\ th' = [th EXCEPT ![p] = Done(th[p], 0)]
    /\ UNCHANGED <<rx, fwreg, lastBy, link, wrote, pcie, bus>>

\* __timeout_us && ktime_compare(ktime_get(), __timeout) > 0, for the poll of
\* KEEP_ALIVE
AliveExpired(elapsed) == elapsed > AliveTimeoutTicks

\* mhdp_readx_poll_timeout(cdns_mhdp_bus_read, mhdp, KEEP_ALIVE, reg, reg, 2000,
\* FW_ALIVE_TIMEOUT_US): one iteration of its loop, by caller p; the firmware's
\* counter reads as zero or not
keep_alive_poll(p) ==
    LET l == th[p] IN
    /\ l.bst = "alive"
    /\ \E reg \in {0, 1} :
         LET l1 == [l EXCEPT !.seen = @ \cup {reg}] IN
         IF reg # 0
         THEN th' = [th EXCEPT ![p] = load_firmware_polled(l1, 0)]
         ELSE IF AliveExpired(l.elapsed)
              THEN \E last \in {0, 1} :
                     th' = [th EXCEPT ![p] =
                              load_firmware_polled(
                                  [l1 EXCEPT !.seen = @ \cup {last}],
                                  IF last # 0 THEN 0 ELSE -ETIMEDOUT)]
              ELSE \E d \in 1..SleepTicks :
                     th' = [th EXCEPT ![p] = [l1 EXCEPT !.elapsed = ktime_get(@, d)]]
    /\ UNCHANGED <<rx, fwreg, lastBy, dev, wrote>>

\* cdns_mhdp_check_alive(mhdp): its first read of KEEP_ALIVE, then one pass of
\* while (retries_left--) per step; l.raw is alive, l.att is retries_left and
\* the result is 1 for true and 0 for false.  The counter of the firmware reads
\* as one of two values.
cdns_mhdp_check_alive(p) ==
    LET l == th[p] IN
    /\ \/ /\ CanCall(p)
          /\ \E alive \in {0, 1} :
               th' = [th EXCEPT ![p] = [Begin("check_alive", <<>>)
                                          EXCEPT !.cpc = "loop", !.raw = alive,
                                                 !.att = AliveRetries]]
       \/ /\ l.cmd = "check_alive" /\ l.cpc = "loop"
          /\ IF l.att = 0
             THEN th' = [th EXCEPT ![p] = Done(l, 0)]
             ELSE \E newalive \in {0, 1} :
                    th' = [th EXCEPT ![p] =
                             IF l.raw = newalive
                             THEN [l EXCEPT !.att = @ - 1]
                             ELSE Done([l EXCEPT !.att = @ - 1], 1)]
    /\ UNCHANGED <<rx, fwreg, lastBy, dev, wrote>>

(* ------------------------------------------------------------------ *)
(* Layerscape Gen4 PCIe: the interrupt handler and the reset work       *)
(* ------------------------------------------------------------------ *)

\* The fields of pcie:
\*   stat, enb       PAB_INTP_AMBA_MISC_STAT (the events latched) and whether
\*                   PAB_INTP_AMBA_MISC_ENB enables them
\*   ipc, val        ls_pcie_g4_isr: the place in it and the status it read
\*   irqret          what the handler returned last
\*   pending, wpc    pcie->dwork: queued or not; the place in ls_pcie_g4_reset
\*   win             a handler saw the reset event and masked the interrupts,
\*                   and no work has re-enabled them since
\*   nsched, nrun    how often the work was queued and entered since win rose
\*   bus_reset       PCI_BRIDGE_CTL_BUS_RESET in PCI_BRIDGE_CONTROL
\*   dbg             the bits PF_DBG_WE and PF_DBG_PABR of PCIE_PF_DBG
\*   to              int to of ls_pcie_g4_reinit_hw
\*   log             what the run of the work in progress, or else the latest
\*                   one, has done so far
\*   rev, lut        pcie->rev and the register PCIE_LUT_GCR: bit
\*                   PCIE_LUT_GCR_RRE and the bit above it
\*   cfg             the call of ls_pcie_g4_read_other_conf in progress, or
\*                   else the latest one: its place, its arguments where
\*                   and size, what PCIE_LUT_GCR held when it was called
\*                   (lut0) and while the read was issued (lut_rd), how
\*                   often it wrote the register (nwr) and what it returned

\* the events that PAB_INTP_AMBA_MISC_STAT latches: PAB_INTP_RESET and the others
PcieEvents == {"reset", "other"}

\* the most queueings and entries that are counted
MaxCount == 2

Bump(n) == IF n < MaxCount THEN n + 1 ELSE n

\* ls_pcie_g4_disable_interrupt(pcie)
ls_pcie_g4_disable_interrupt(r) ==
    IF r.win THEN [r EXCEPT !.enb = FALSE]
    ELSE [r EXCEPT !.enb = FALSE, !.win = TRUE, !.nsched = 0, !.nrun = 0]

\* schedule_delayed_work(&pcie->dwork, msecs_to_jiffies(1)): a work that is
\* queued already stays as it is
schedule_delayed_work(r) ==
    IF r.pending THEN r ELSE [r EXCEPT !.pending = TRUE, !.nsched = Bump(@)]

\* the hardware latches an event, enabled or not
PcieEvent ==
    /\ \E e \in PcieEvents :
         /\ e \notin pcie.stat
         /\ pcie' = [pcie EXCEPT !.stat = @ \cup {e},
                                 !.bus_reset = IF e = "reset" THEN TRUE ELSE @]
    /\ UNCHANGED <<th, rx, fwreg, lastBy, link, wrote, fw_version, bus>>

\* ls_pcie_g4_isr(irq, dev_id), statement by statement. The line is shared
\* (IRQF_SHARED): the handler is called whenever any device on it interrupts.
ls_pcie_g4_isr ==
    /\ \/ /\ pcie.ipc = "idle"
          /\ pcie' = IF pcie.stat = {}
                     THEN [pcie EXCEPT !.irqret = "IRQ_NONE"]
                     ELSE [pcie EXCEPT !.val = pcie.stat,
                                       !.ipc = IF "reset" \in pcie.stat
                                               THEN "disable" ELSE "ack"]
       \/ /\ pcie.ipc = "disable"
          /\ pcie' = [ls_pcie_g4_disable_interrupt(pcie) EXCEPT !.ipc = "schedule"]
       \/ /\ pcie.ipc = "schedule"
          /\ pcie' = [schedule_delayed_work(pcie) EXCEPT !.ipc = "ack"]
       \/ /\ pcie.ipc = "ack"
          /\ pcie' = [pcie EXCEPT !.stat = @ \ pcie.val, !.val = {},
                                  !.ipc = "idle", !.irqret = "IRQ_HANDLED"]
    /\ UNCHANGED <<th, rx, fwreg, lastBy, link, wrote, fw_version, bus>>

\* the work notes what it does
Logged(r, what) == [r EXCEPT !.log = Append(@, what)]

\* a poll that gives up one sample early
poll_timed_out_early(to) == to <= 0

\* if (to < 0)
poll_timed_out(to) == to < 0

\* one pass of a poll of ls_pcie_g4_reinit_hw, "do { ... } while (waiting &&
\* to--)" or "while (waiting && to--)", after its sample: to-- is evaluated
\* only when waiting holds; the poll is over when wpc is "over"
reinit_hw_poll(r, waiting) ==
    IF waiting
    THEN IF r.to # 0 THEN [r EXCEPT !.to = @ - 1]
         ELSE [r EXCEPT !.to = @ - 1, !.wpc = "over"]
    ELSE [r EXCEPT !.wpc = "over"]

\* ls_pcie_g4_reinit_hw(pcie), statement by statement; sample is what the
\* hardware shows to a poll: the reset complete and no activity, the link up
ls_pcie_g4_reinit_hw(r, sample) ==
    CASE r.wpc = "poll_reset" ->
            LET r2 == reinit_hw_poll(
                          Logged(r, IF sample THEN "reset_done" ELSE "reset_busy"),
                          ~sample)
            IN  IF r2.wpc = "over"
                THEN [r2 EXCEPT !.wpc = IF poll_timed_out(r2.to)
                                        THEN "clear_status" ELSE "dbg_we"]
                ELSE r2
      [] r.wpc = "dbg_we" ->
            [Logged(r, "dbg_we") EXCEPT !.dbg = @ \cup {"WE"}, !.wpc = "dbg_pabr"]
      [] r.wpc = "dbg_pabr" ->
            [Logged(r, "dbg_pabr") EXCEPT !.dbg = @ \cup {"PABR"}, !.wpc = "dbg_wd"]
      [] r.wpc = "dbg_wd" ->
            [Logged(r, "dbg_wd") EXCEPT !.dbg = @ \ {"WE"}, !.wpc = "host_init"]
      [] r.wpc = "host_init" ->
            [Logged(r, "host_init") EXCEPT !.wpc = "poll_link", !.to = PollRetries]
      [] r.wpc = "poll_link" ->
            LET r2 == reinit_hw_poll(
                          Logged(r, IF sample THEN "link_up" ELSE "link_down"),
                          ~sample)
            IN  IF r2.wpc = "over" THEN [r2 EXCEPT !.wpc = "clear_status"] ELSE r2

\* ls_pcie_g4_reset(work): a worker enters the queued work, then the function
\* statement by statement; ls_pcie_g4_enable_interrupt is its last two writes
ls_pcie_g4_reset ==
    /\ \/ /\ pcie.pending /\ pcie.wpc = "idle"
          /\ pcie' = [pcie EXCEPT !.pending = FALSE, !.wpc = "bridge_control",
                                  !.nrun = Bump(@), !.log = <<>>]
       \/ /\ pcie.wpc = "bridge_control"
          /\ pcie' = [Logged(pcie, "bridge_control")
                        EXCEPT !.bus_reset = FALSE, !.wpc = "poll_reset",
                               !.to = PollRetries]
       \/ /\ pcie.wpc \in {"poll_reset", "poll_link"}
          /\ \E sample \in BOOLEAN : pcie' = ls_pcie_g4_reinit_hw(pcie, sample)
       \/ /\ pcie.wpc \in {"dbg_we", "dbg_pabr", "dbg_wd", "host_init"}
          /\ pcie' = ls_pcie_g4_reinit_hw(pcie, FALSE)
       \/ /\ pcie.wpc = "clear_status"
          /\ pcie' = [Logged(pcie, "clear_status") EXCEPT !.stat = {}, !.wpc = "enable"]
       \/ /\ pcie.wpc = "enable"
          /\ pcie' = [Logged(pcie, "enable")
                        EXCEPT !.enb = TRUE, !.wpc = "idle", !.win = FALSE]
    /\ UNCHANGED <<th, rx, fwreg, lastBy, link, wrote, fw_version, bus>>

\* #define REV_1_0 (0x10)
REV_1_0 == 16

\* PCI_VENDOR_ID, the offset of the vendor ID in the configuration space
PCI_VENDOR_ID == 0

\* #define PCIE_LUT_GCR_RRE (0)
PCIE_LUT_GCR_RRE == 0

\* the revisions of the controller: 1.0 and a later one
Revisions == {REV_1_0, 32}

\* the offsets a configuration read asks for: the vendor ID, the device ID and
\* the command register
ConfigOffsets == {PCI_VENDOR_ID, 2, 4}

\* what PCIE_LUT_GCR holds, as far as its two lowest bits go
LutValues == 0..3

\* the results of pci_generic_config_read: PCIBIOS_SUCCESSFUL and
\* PCIBIOS_DEVICE_NOT_FOUND
ConfigResults == {0, 134}

\* the condition of both writes of ls_pcie_g4_read_other_conf
read_other_conf_workaround(r) ==
    r.rev = REV_1_0 /\ r.cfg.where = PCI_VENDOR_ID

\* ls_pcie_g4_lut_writel(pcie, PCIE_LUT_GCR, val): the whole register is written
ls_pcie_g4_lut_writel(r, val) ==
    [r EXCEPT !.lut = val, !.cfg.nwr = @ + 1]

\* ls_pcie_g4_read_other_conf(bus, devfn, where, size, val), statement by
\* statement
ls_pcie_g4_read_other_conf ==
    /\ \/ /\ pcie.cfg.pc \in {"idle", "done"}
          /\ \E where \in ConfigOffsets, size \in {1, 2, 4} :
               pcie' = [pcie EXCEPT !.cfg = [pc |-> "clear", where |-> where,
                                             size |-> size, lut0 |-> pcie.lut,
                                             lut_rd |-> 0, nwr |-> 0, ret |-> 0]]
       \/ /\ pcie.cfg.pc = "clear"
          /\ pcie' = [(IF read_other_conf_workaround(pcie)
                       THEN ls_pcie_g4_lut_writel(pcie, 0 * 2 ^ PCIE_LUT_GCR_RRE)
                       ELSE pcie) EXCEPT !.cfg.pc = "read"]
       \/ /\ pcie.cfg.pc = "read"
          /\ \E ret \in ConfigResults :
               pcie' = [pcie EXCEPT !.cfg.pc = "set", !.cfg.ret = ret,
                                    !.cfg.lut_rd = pcie.lut]
       \/ /\ pcie.cfg.pc = "set"
          /\ pcie' = [(IF read_other_conf_workaround(pcie)
                       THEN ls_pcie_g4_lut_writel(pcie, 1 * 2 ^ PCIE_LUT_GCR_RRE)
                       ELSE pcie) EXCEPT !.cfg.pc = "done"]
    /\ UNCHANGED <<th, rx, fwreg, lastBy, link, wrote, fw_version, bus>>

(* ------------------------------------------------------------------ *)
(* The register bus: cdns_mhdp_bus_read and cdns_mhdp_bus_write         *)
(* ------------------------------------------------------------------ *)

\* The fields of bus:
\*   bus_type        mhdp->bus_type
\*   iolock          the caller that holds mhdp->iolock, or 0
\*   sec             the page-select registers at mhdp->regs_sec + 8 and + 0xc
\*   c               for each caller its call in progress, or else its latest
\*                   one: the place in it, whether it reads or writes, its
\*                   offset, and the register its data access reached (at),
\*                   -1 before the access
BusTypes == {"BUS_TYPE_NORMAL_APB", "BUS_TYPE_NORMAL_SAPB",
             "BUS_TYPE_LOW4K_APB", "BUS_TYPE_LOW4K_SAPB"}

Low4kTypes == {"BUS_TYPE_LOW4K_APB", "BUS_TYPE_LOW4K_SAPB"}

\* the offsets of the calls: two registers of one page, and registers at the
\* same place in two other pages
BusOffsets == {4, 8, 4096 + 4, 2 * 4096 + 4}

\* offset >> 12 and offset & 0xfff
bus_page(offset) == offset \div 4096
bus_low(offset) == offset % 4096

\* the page-select register of a windowed mode, as its offset from
\* mhdp->regs_sec
page_select(bus_type) == IF bus_type = "BUS_TYPE_LOW4K_SAPB" THEN 12 ELSE 8

IdleBusCall == [pc |-> "idle", kind |-> "none", offset |-> 0, at |-> -1]

BusInit ==
    [bus_type |-> "BUS_TYPE_LOW4K_APB", iolock |-> 0,
     sec |-> [a \in {8, 12} |-> 0],
     c |-> [p \in Procs |-> IdleBusCall]]

\* mutex_lock(&mhdp->iolock) without the wait
mutex_lock_unguarded(b, p) == TRUE

\* mutex_lock(&mhdp->iolock) returns to p once no caller holds the lock
mutex_lock(b, p) == b.iolock = 0

\* the register that the access of (offset & 0xfff) + mhdp->regs_base reaches
\* in a windowed mode: the one at that place in the page selected
low4k_target(b, offset) ==
    b.sec[page_select(b.bus_type)] * 4096 + bus_low(offset)

\* cdns_mhdp_bus_read(mhdp, offset) and cdns_mhdp_bus_write(val, mhdp,
\* offset), statement by statement, by caller p
bus_access(p, kind) ==
    LET c == bus.c[p] IN
    /\ \/ /\ c.pc \in {"idle", "done"}
          /\ \E offset \in BusOffsets :
               bus' = [bus EXCEPT !.c[p] = [pc |-> "lock", kind |-> kind,
                                            offset |-> offset, at |-> -1]]
       \/ /\ c.pc = "lock" /\ c.kind = kind
          /\ mutex_lock(bus, p)
          /\ bus' = [bus EXCEPT !.iolock = p,
                                !.c[p].pc = IF bus.bus_type \in Low4kTypes
                                            THEN "remap" ELSE "data"]
       \/ /\ c.pc = "remap" /\ c.kind = kind
          /\ bus' = [bus EXCEPT !.sec[page_select(bus.bus_type)] = bus_page(c.offset),
                                !.c[p].pc = "data"]
       \/ /\ c.pc = "data" /\ c.kind = kind
          /\ bus' = [bus EXCEPT !.c[p].at = IF bus.bus_type \in Low4kTypes
                                            THEN low4k_target(bus, c.offset)
                                            ELSE c.offset,
                                !.c[p].pc = "unlock"]
       \/ /\ c.pc = "unlock" /\ c.kind = kind
          /\ bus' = [bus EXCEPT !.iolock = 0, !.c[p].pc = "done"]
    /\ UNCHANGED <<th, rx, fwreg, lastBy, link, wrote, fw_version, pcie>>

cdns_mhdp_bus_read(p) == bus_access(p, "read")

cdns_mhdp_bus_write(p) == bus_access(p, "write")

(* ------------------------------------------------------------------ *)
(* Specifications                                                      *)
(* ------------------------------------------------------------------ *)

\* the PCIe controller after ls_pcie_g4_probe: the status cleared, the
\* interrupts enabled, no handler and no work in progress
PcieInit ==
    [stat |-> {}, enb |-> TRUE,
     ipc |-> "idle", val |-> {}, irqret |-> "none",
     pending |-> FALSE, wpc |-> "idle",
     win |-> FALSE, nsched |-> 0, nrun |-> 0,
     bus_reset |-> FALSE, dbg |-> {}, to |-> 0, log |-> <<>>,
     rev |-> REV_1_0, lut |-> 2 ^ PCIE_LUT_GCR_RRE,
     cfg |-> [pc |-> "idle", where |-> 0, size |-> 0, lut0 |-> 0,
              lut_rd |-> 0, nwr |-> 0, ret |-> 0]]

Init ==
    /\ th = [p \in Procs |-> IdleThread]
    /\ rx = <<>>
    /\ fwreg = [a \in {} |-> <<>>]
    /\ lastBy = 0
    /\ link = [rate |-> 540000, num_lanes |-> 4]
    /\ wrote = [a \in {} |-> <<>>]
    /\ fw_version = <<0, 0, 0, 0>>
    /\ pcie = PcieInit
    /\ bus = BusInit

\* one caller at a time (the commands are called from one thread)
Next ==
    \E p \in {1} :
        \/ mhdp_readx_poll_timeout(p)
        \/ MailboxReadData(p)
        \/ MailboxWriteData(p)
        \/ cdns_mhdp_reg_write(p)
        \/ cdns_mhdp_reg_read(p)
        \/ cdns_mhdp_reg_write_bit(p)
        \/ cdns_mhdp_dpcd_read(p)
        \/ cdns_mhdp_dpcd_write(p)
        \/ cdns_mhdp_set_host_cap(p)
        \/ cdns_mhdp_event_config(p)
        \/ cdns_mhdp_get_hpd_status(p)
        \/ cdns_mhdp_get_edid_block(p)
        \/ cdns_mhdp_set_video_status(p)
        \/ mailbox_roundtrip(p)

Spec == Init /\ [][Next]_vars

\* two callers on one device handle, each with one command (a command that
\* sends its request and awaits no response)
NextConc ==
    \E p \in Procs :
        \/ mhdp_readx_poll_timeout(p)
        \/ MailboxWriteData(p)
        \/ th[p].cpc = "idle" /\ cdns_mhdp_set_video_status(p)
        \/ th[p].cpc = "idle" /\ cdns_mhdp_event_config(p)
        \/ th[p].cpc = "send" /\ cdns_mhdp_set_video_status(p)
        \/ th[p].cpc = "send" /\ cdns_mhdp_event_config(p)

SpecConc == Init /\ [][NextConc]_vars

\* one caller that trains the link
NextTrain ==
    \E p \in {1} :
        \/ mhdp_readx_poll_timeout(p)
        \/ MailboxReadData(p)
        \/ MailboxWriteData(p)
        \/ cdns_mhdp_train_link(p)

SpecTrain == Init /\ [][NextTrain]_vars

\* a trained link
InitVideo ==
    /\ th = [p \in Procs |-> IdleThread]
    /\ rx = <<>>
    /\ fwreg = [a \in {} |-> <<>>]
    /\ lastBy = 0
    /\ link \in VideoLinks
    /\ wrote = [a \in {} |-> <<>>]
    /\ fw_version = <<0, 0, 0, 0>>
    /\ pcie = PcieInit
    /\ bus = BusInit

\* one caller that configures the video stream
NextVideo ==
    \E p \in {1} :
        \/ mhdp_readx_poll_timeout(p)
        \/ MailboxWriteData(p)
        \/ cdns_mhdp_config_video(p)

SpecVideo == InitVideo /\ [][NextVideo]_vars

\* one caller that reads registers and adjusts the link training
NextLt ==
    \E p \in {1} :
        \/ mhdp_readx_poll_timeout(p)
        \/ MailboxReadData(p)
        \/ MailboxWriteData(p)
        \/ cdns_mhdp_reg_read(p)
        \/ cdns_mhdp_adjust_lt(p)

SpecLt == Init /\ [][NextLt]_vars

\* one caller that loads the firmware and switches it between active and standby
NextFw ==
    \E p \in {1} :
        \/ mhdp_readx_poll_timeout(p)
        \/ MailboxReadData(p)
        \/ MailboxWriteData(p)
        \/ cdns_mhdp_set_firmware_active(p)
        \/ cdns_mhdp_load_firmware(p)
        \/ keep_alive_poll(p)

SpecFw == Init /\ [][NextFw]_vars

\* the PCIe controller, its interrupt handler on one CPU and its reset work on
\* another
NextPcie ==
    \/ PcieEvent
    \/ ls_pcie_g4_isr
    \/ ls_pcie_g4_reset

SpecPcie == Init /\ [][NextPcie]_vars

\* the controller as ls_pcie_g4_host_init finds it: of either revision, and
\* PCIE_LUT_GCR as the hardware and the boot software left it
InitConf ==
    /\ th = [p \in Procs |-> IdleThread]
    /\ rx = <<>>
    /\ fwreg = [a \in {} |-> <<>>]
    /\ lastBy = 0
    /\ link = [rate |-> 540000, num_lanes |-> 4]
    /\ wrote = [a \in {} |-> <<>>]
    /\ fw_version = <<0, 0, 0, 0>>
    /\ \E rev \in Revisions, lut \in LutValues :
         pcie = [PcieInit EXCEPT !.rev = rev, !.lut = lut]
    /\ bus = BusInit

\* the configuration reads of the devices behind the controller
NextConf == ls_pcie_g4_read_other_conf

SpecConf == InitConf /\ [][NextConf]_vars

\* one caller that trains the link, negotiates the host capabilities and
\* configures the video stream
NextLink ==
    \E p \in {1} :
        \/ mhdp_readx_poll_timeout(p)
        \/ MailboxReadData(p)
        \/ MailboxWriteData(p)
        \/ cdns_mhdp_train_link(p)
        \/ cdns_mhdp_set_host_cap(p)
        \/ cdns_mhdp_config_video(p)

SpecLink == Init /\ [][NextLink]_vars

\* the operation that caller p has chosen is c, or p has not chosen yet
Chosen(p, c) == th[p].cmd \in {"none", c}

\* one caller of one of the operations that wait, the EDID fetch, the link
\* training, the firmware load or the alive check, any number of times
NextLive ==
    \E p \in {1} :
        \/ mhdp_readx_poll_timeout(p)
        \/ MailboxReadData(p)
        \/ MailboxWriteData(p)
        \/ Chosen(p, "get_edid_block") /\ cdns_mhdp_get_edid_block(p)
        \/ Chosen(p, "train_link") /\ cdns_mhdp_train_link(p)
        \/ Chosen(p, "load_firmware") /\ cdns_mhdp_load_firmware(p)
        \/ keep_alive_poll(p)
        \/ Chosen(p, "check_alive") /\ cdns_mhdp_check_alive(p)

\* the caller keeps running: a step of it that can be taken is taken
SpecLive == Init /\ [][NextLive]_vars /\ WF_vars(NextLive)

\* a device handle of any bus type
InitBus ==
    /\ th = [p \in Procs |-> IdleThread]
    /\ rx = <<>>
    /\ fwreg = [a \in {} |-> <<>>]
    /\ lastBy = 0
    /\ link = [rate |-> 540000, num_lanes |-> 4]
    /\ wrote = [a \in {} |-> <<>>]
    /\ fw_version = <<0, 0, 0, 0>>
    /\ pcie = PcieInit
    /\ \E t \in BusTypes : bus = [BusInit EXCEPT !.bus_type = t]

\* concurrent callers of the bus accessors
NextBus ==
    \E p \in Procs :
        \/ cdns_mhdp_bus_read(p)
        \/ cdns_mhdp_bus_write(p)

SpecBus == InitBus /\ [][NextBus]_vars

(* ------------------------------------------------------------------ *)
(* Properties                                                          *)
(* ------------------------------------------------------------------ *)

\* the big-endian length a received header declares
Declared(h) == h[3] * 256 + h[4]

\* caller l is at a return of validate_receive that had read a whole header
\* which differs from what it was asked to expect
ValidateMismatchReturned(l) ==
    /\ l.fn = "validate_receive" /\ l.bst = "none"
    /\ Len(l.header) = 4
    /\ \/ l.header[1] # l.opcode
       \/ l.header[2] # l.module_id
       \/ Declared(l.header) # l.size

\* C1 as the specification words it: on a header mismatch validate_receive
\* reads exactly the declared number of bytes after the header and returns
\* -EINVAL, whatever the mailbox holds and however the flags behave.
C1_DrainsDeclaredLength ==
    \A p \in Procs :
        ValidateMismatchReturned(th[p]) =>
            /\ th[p].nread - 4 = Declared(th[p].header)
            /\ th[p].tret = -EINVAL

\* C1 as the code has it: on a header mismatch validate_receive returns
\* -EINVAL; it has read the declared number of bytes after the header when
\* none of these reads timed out, and fewer when one did, that read being its
\* last access to the mailbox.
C1_DrainsUntilTimeout ==
    \A p \in Procs :
        ValidateMismatchReturned(th[p]) =>
            /\ th[p].tret = -EINVAL
            /\ IF th[p].res = -ETIMEDOUT
               THEN th[p].nread - 4 < Declared(th[p].header) /\ th[p].rd = 0
               ELSE th[p].nread - 4 = Declared(th[p].header)

\* a mismatching header was followed by a drain of all the bytes it declared
C1_Witness ==
    \E p \in Procs :
        /\ ValidateMismatchReturned(th[p])
        /\ Declared(th[p].header) > 0
        /\ th[p].nread - 4 = Declared(th[p].header)
        /\ th[p].tret = -EINVAL

\* C2: when several callers run commands on one device at the same time, the
\* bytes of one caller's send or receive sequence are not interleaved with
\* mailbox bytes of another caller: every transport call's accesses to the
\* data registers follow one another with no other caller's access between.
C2_NoInterleaving == \A p \in Procs : th[p].contig

\* s is t or a beginning of t
IsPrefix(s, t) == Len(s) <= Len(t) /\ s = SubSeq(t, 1, Len(s))

\* the frame that a send with caller l's arguments is to put on the wire
ExpectedFrame(l) ==
    <<l.opcode, l.module_id, (l.size \div 256) % 256, l.size % 256>>
        \o SubSeq(l.message, 1, l.size)

\* C3: a send writes the bytes [opcode, module_id, size>>8, size&0xff] and then
\* the payload, in order, each only after FULL was sampled clear; when it
\* returns 0 it has written all of them, and when it fails it returns the
\* error of the byte write that timed out, having written only the bytes
\* before that one.
C3_SendFrame ==
    \A p \in Procs :
        LET l == th[p] IN
        l.fn = "send" =>
            /\ IsPrefix(l.sent, ExpectedFrame(l))
            /\ (l.bst = "xfer" => l.clear)
            /\ l.bst = "none" =>
                   \/ l.tret = 0 /\ l.sent = ExpectedFrame(l)
                   \/ /\ l.tret = -ETIMEDOUT /\ l.res = -ETIMEDOUT
                      /\ Len(l.sent) < Len(ExpectedFrame(l))

\* a send of more than 255 payload bytes returned 0
C3_Witness ==
    \E p \in Procs :
        /\ th[p].fn = "send" /\ th[p].bst = "none" /\ th[p].tret = 0
        /\ th[p].size > 255 /\ Len(th[p].sent) = th[p].size + 4

\* caller l runs the loop-back round trip and the mailbox gave back its frame
LoopedBack(l) == l.cmd = "mailbox_roundtrip" /\ l.rk = "loopback"

\* C4: when the frame that send produced comes back as the response, then,
\* unless a read times out, validate_receive with the same module, opcode and
\* length returns 0 having read the four header bytes only, and read_receive
\* returns the payload bytes in order and leaves nothing of the frame unread.
C4_LoopbackRoundTrip ==
    \A p \in Procs :
        LET l == th[p] IN
        LoopedBack(l) =>
            /\ l.fn = "validate_receive" /\ l.bst = "none" =>
                   \/ l.tret = -ETIMEDOUT
                   \/ l.tret = 0 /\ l.nread = 4 /\ rx = l.arg[3]
            /\ l.fn = "read_receive" /\ l.bst = "none" =>
                   \/ l.tret = -ETIMEDOUT
                   \/ l.tret = 0 /\ l.buff = l.arg[3] /\ rx = <<>>
                      /\ l.nread = Len(l.arg[3])

\* a payload of more than 255 bytes came back whole
C4_Witness ==
    \E p \in Procs :
        /\ LoopedBack(th[p]) /\ th[p].cpc = "done" /\ th[p].ret = 0
        /\ Len(th[p].arg[3]) > 255 /\ th[p].buff = th[p].arg[3]

\* caller l's last access to the mailbox was a byte read that is over
ByteReadOver(l) ==
    l.fn \in {"validate_receive", "read_receive"} /\ l.bst = "none"
        /\ (l.fn = "read_receive" => l.size > 0)

\* C5: a byte read whose samples of EMPTY were all set until the timeout had
\* elapsed returns -ETIMEDOUT without a read of RD_DATA; RD_DATA is read only
\* after a sample of EMPTY was clear, once, and its low 8 bits are returned.
C5_ReadByte ==
    \A p \in Procs :
        LET l == th[p] IN
        /\ l.rd <= 1
        /\ (l.bst = "xfer" /\ l.dir = "read" => l.clear /\ l.rd = 0)
        /\ ByteReadOver(l) =>
               IF l.clear
               THEN l.rd = 1 /\ l.res = l.raw % 256 /\ l.res \in 0..255
               ELSE /\ l.rd = 0 /\ l.res = -ETIMEDOUT
                    /\ l.elapsed > MboxTimeoutTicks

\* a byte read timed out
C5_Witness ==
    \E p \in Procs :
        /\ ByteReadOver(th[p]) /\ th[p].res = -ETIMEDOUT /\ th[p].rd = 0

\* the commands that send a request and return without awaiting a response
SendOnlyCmds ==
    {"reg_write", "reg_write_bit", "set_host_cap", "event_config",
     "set_video_status"}

\* the commands that send a request and await its response
AwaitCmds ==
    {"reg_read", "dpcd_read", "dpcd_write", "get_hpd_status", "get_edid_block"}

\* caller l's command has returned success after it sent a request frame
SentAndSucceeded(l) ==
    /\ l.cmd \in SendOnlyCmds \cup AwaitCmds
    /\ l.cpc = "done" /\ l.ret >= 0 /\ l.nsend >= 1

\* the bytes asked of the read_receive calls from the k-th transport call on
RECURSIVE ReadTotal(_, _)
ReadTotal(st, k) == IF k > Len(st) THEN 0 ELSE st[k].n + ReadTotal(st, k + 1)

\* the last request/response cycle was send, then validate_receive, then
\* read_receive of all the bytes validate_receive was told to expect, each
\* returning 0
SendValidateRead(st) ==
    /\ Len(st) >= 3
    /\ st[1].fn = "send" /\ st[2].fn = "validate_receive"
    /\ \A k \in 3..Len(st) : st[k].fn = "read_receive"
    /\ \A k \in 1..Len(st) : st[k].ret = 0
    /\ st[2].n = ReadTotal(st, 3)

WordBytes(w) == <<w[1] \div 256, w[1] % 256, w[2] \div 256, w[2] % 256>>

\* caller l's register read has returned after a send, a validate_receive and
\* a read_receive that returned 0
RegReadIntact(l) ==
    /\ l.cmd = "reg_read" /\ l.cpc = "done"
    /\ Len(l.steps) = 3 /\ \A k \in 1..3 : l.steps[k].ret = 0

\* C7: a register read whose response passes validate_receive but whose first
\* four payload bytes are not the requested address, big-endian, returns
\* -EINVAL, not the value the payload's last four bytes decode to.
C7_EchoMismatchFails ==
    \A p \in Procs :
        LET l == th[p] IN
        RegReadIntact(l) /\ SubSeq(l.buff, 1, 4) # WordBytes(l.arg[1])
            => l.ret = -EINVAL

\* a register read got an intact response with another address in it
C7_Witness ==
    \E p \in Procs :
        /\ RegReadIntact(th[p])
        /\ SubSeq(th[p].buff, 1, 4) # WordBytes(th[p].arg[1])
        /\ th[p].ret = -EINVAL

\* C8: against a firmware that stores register writes and echoes reads, a
\* register read of an address that was written with v returns success with
\* the value v, for every 32-bit v.
C8_RegisterRoundTrip ==
    \A p \in Procs :
        LET l == th[p] IN
        /\ RegReadIntact(l) /\ l.rk = "good"
        /\ l.arg[1] \in DOMAIN wrote
        => /\ l.ret >= 0
           /\ l.ret \div 65536 = wrote[l.arg[1]][1]
           /\ l.ret % 65536 = wrote[l.arg[1]][2]

\* an intact response with the requested length and half-block index was seen
EdidMatched(l) == \E r \in l.seen : r[1] = l.arg[2] /\ r[2] = l.arg[1] \div 2

\* C9: an EDID fetch runs at most 4 request/response cycles, stops after the
\* first cycle whose transport steps all returned 0 and whose length byte and
\* half-block index match the request, and then returns 0; it stops before
\* its fourth cycle in no other case.
C9_EdidStopsAtFirstMatch ==
    \A p \in Procs :
        LET l == th[p] IN
        l.cmd = "get_edid_block" =>
            /\ l.nsend <= 4
            /\ (l.cpc # "done" => ~EdidMatched(l))
            /\ (l.cpc = "done" /\ EdidMatched(l) =>
                    /\ l.ret = 0
                    /\ Len(l.steps) = 4 /\ \A k \in 1..4 : l.steps[k].ret = 0
                    /\ l.reg[1] = l.arg[2] /\ l.reg[2] = l.arg[1] \div 2)
            /\ (l.cpc = "done" /\ l.nsend < 4 => EdidMatched(l))

\* an EDID fetch returned 0 on its fourth cycle after an intact response that
\* did not match
C9_Witness ==
    \E p \in Procs :
        /\ th[p].cmd = "get_edid_block" /\ th[p].cpc = "done"
        /\ th[p].nsend = 4 /\ th[p].ret = 0 /\ EdidMatched(th[p])
        /\ \E r \in th[p].seen : r[2] # th[p].arg[1] \div 2

\* C10: an EDID fetch none of whose 4 cycles produced an intact response with
\* the requested length and half-block index returns an error.
C10_EdidNoMatchFails ==
    \A p \in Procs :
        LET l == th[p] IN
        l.cmd = "get_edid_block" /\ l.cpc = "done" /\ ~EdidMatched(l)
            => l.ret < 0

\* caller l's train_link has returned
TrainLinkDone(l) == l.cmd = "train_link" /\ l.cpc = "done"

\* the requests of kind op that caller l's command has sent
SendsOf(l, op) == {k \in 1..Len(l.hist) : l.hist[k].fn = "send" /\ l.hist[k].op = op}

\* no event that caller l's command read had the equalization-finished bit set
NoEqFinished(l) == \A k \in 1..Len(l.hist) : ~l.hist[k].flag

\* every transport call of caller l's command returned 0
AllTransportOk(l) == \A k \in 1..Len(l.hist) : l.hist[k].ret = 0

\* C11: a train_link none of whose event reads reported equalization finished
\* before the training deadline returns an error, -ETIMEDOUT when every poll
\* was read whole, has sent no READ_LINK_STAT request, and has left the link
\* rate and lane count as they were.
C11_TrainingTimeout ==
    \A p \in Procs :
        LET l == th[p] IN
        TrainLinkDone(l) /\ NoEqFinished(l) =>
            /\ l.ret # 0
            /\ SendsOf(l, DPTX_READ_LINK_STAT) = {}
            /\ link = l.old
            /\ AllTransportOk(l) => l.ret = -ETIMEDOUT /\ l.now >= TrainTimeoutTicks

\* a train_link gave up after two or more intact event reads without the flag
C11_Witness ==
    \E p \in Procs :
        /\ TrainLinkDone(th[p]) /\ NoEqFinished(th[p]) /\ AllTransportOk(th[p])
        /\ Cardinality(SendsOf(th[p], DPTX_READ_EVENT)) >= 2
        /\ th[p].ret = -ETIMEDOUT

\* C12: in a train_link no transport call follows one that failed: the call
\* returns at once with the failed call's error, and it sends the
\* start-training command once.
C12_TrainingAbortsOnFailure ==
    \A p \in Procs :
        LET l == th[p]
            n == Len(l.hist)
        IN  l.cmd = "train_link" =>
            /\ \A k \in 1..(n - 1) : l.hist[k].ret = 0
            /\ (n > 0 /\ l.hist[n].ret # 0 =>
                    l.cpc = "done" /\ l.ret = l.hist[n].ret)
            /\ Cardinality(SendsOf(l, DPTX_TRAINING_CONTROL)) <= 1
            /\ l.nsend <= n + 1
            /\ (l.cpc = "done" =>
                    /\ Cardinality(SendsOf(l, DPTX_TRAINING_CONTROL)) = 1
                    /\ l.hist[1].op = DPTX_TRAINING_CONTROL
                    /\ l.nsend = Cardinality({k \in 1..n : l.hist[k].fn = "send"}))

\* a train_link ended at the header of the link status, after the training
\* itself had finished
C12_Witness ==
    \E p \in Procs :
        LET l == th[p] IN
        /\ TrainLinkDone(l) /\ l.ret = -EINVAL
        /\ l.hist[Len(l.hist)] =
              [fn |-> "validate_receive", op |-> DPTX_READ_LINK_STAT,
               ret |-> -EINVAL, flag |-> FALSE]


\* the tu sizes the search tries
TuCandidates == {tu \in 32..64 : tu % 2 = 0}

\* the bits per pixel of a video format
BitsPerPixel(video) ==
    IF video.color_fmt = YCBCR_4_2_2 THEN 2 * video.color_depth ELSE 3 * video.color_depth

\* VS = tu*clock*bpp / (lanes*(rate/1000)*8), in thousandths
VS(tu, video, lnk) ==
    (tu * video.clock * BitsPerPixel(video)) \div (lnk.num_lanes * (lnk.rate \div 1000) * 8)

IntegerPart(tu, video, lnk) == VS(tu, video, lnk) \div 1000

Remainder(tu, video, lnk) == VS(tu, video, lnk) % 1000

\* integer part > 1, tu - integer part >= 4 and 100 < remainder < 850
ValidStrict(tu, video, lnk) ==
    /\ IntegerPart(tu, video, lnk) > 1
    /\ tu - IntegerPart(tu, video, lnk) >= 4
    /\ Remainder(tu, video, lnk) > 100
    /\ Remainder(tu, video, lnk) < 850

\* integer part > 1, 100 <= remainder <= 850, and tu - integer part >= 4
\* unless the integer part exceeds tu
ValidAsSearched(tu, video, lnk) ==
    /\ IntegerPart(tu, video, lnk) > 1
    /\ \/ tu - IntegerPart(tu, video, lnk) >= 4
       \/ IntegerPart(tu, video, lnk) > tu
    /\ Remainder(tu, video, lnk) >= 100
    /\ Remainder(tu, video, lnk) <= 850

\* caller l's configure-video has had its write of the framer TU register
\* taken whole by the mailbox
TuWriteReturned(l) ==
    /\ l.cmd = "config_video" /\ l.cpc = "write" /\ l.bst = "none"
    /\ l.att = 3 /\ l.tret = 0

\* the tu size in the frame that wrote the framer TU register: bits 8..14 of
\* the value
TuWritten(l) == l.sent[11] % 128

\* the example of the specification
ExampleVideo ==
    [clock |-> 148500, color_depth |-> 8, color_fmt |-> PXL_RGB,
     h_sync_polarity |-> 1, v_sync_polarity |-> 0]

ExampleLink == [rate |-> 540000, num_lanes |-> 4]

C14_IntegerPartFitsTu ==
    \A p \in Procs :
        TuWriteReturned(th[p]) =>
            IntegerPart(TuWritten(th[p]), th[p].arg[1], link) + 4 <= TuWritten(th[p])

\* the writes of caller l's configure-video from the framer TU register on
TuAndLaterWrites(l) == {k \in 1..Len(l.hist) : l.hist[k].op >= 3}

\* C15: a configure-video whose input has no tu in {32, 34, ..., 64} with
\* integer part > 1, tu - integer part >= 4 and a remainder in range writes
\* neither the framer TU register nor any later register, and returns -EINVAL
\* when the writes before the search succeeded.
C15_NoSolutionWritesNothing ==
    \A p \in Procs :
        LET l == th[p] IN
        /\ l.cmd = "config_video"
        /\ \A tu \in TuCandidates :
             ~(/\ IntegerPart(tu, l.arg[1], link) > 1
               /\ tu - IntegerPart(tu, l.arg[1], link) >= 4
               /\ Remainder(tu, l.arg[1], link) >= 100
               /\ Remainder(tu, l.arg[1], link) <= 850)
        => /\ l.att < 3
           /\ TuAndLaterWrites(l) = {}
           /\ l.cpc = "done" /\ AllTransportOk(l) => l.ret = -EINVAL

\* C16: in a configure-video no register write follows one that failed: the
\* call returns at once with the failed write's error, whichever write of the
\* sequence it is.
C16_VideoAbortsOnFailure ==
    \A p \in Procs :
        LET l == th[p]
            n == Len(l.hist)
        IN  l.cmd = "config_video" =>
            /\ \A k \in 1..(n - 1) : l.hist[k].ret = 0
            /\ (n > 0 /\ l.hist[n].ret # 0 =>
                    l.cpc = "done" /\ l.ret = l.hist[n].ret)

\* caller l's command has touched no mailbox register: no byte written, no
\* byte read, no transport call begun
NoMailboxTraffic(l) ==
    /\ l.nsend = 0 /\ l.sent = <<>> /\ l.nread = 0 /\ l.nx = 0
    /\ l.steps = <<>> /\ l.bst = "none" /\ l.fn = "none"

\* caller l is in a command whose argument the command refuses
RefusedArgument(l) ==
    \/ l.cmd = "reg_read" /\ l.arg[1] = W32(0, 0)
    \/ l.cmd = "adjust_lt" /\ l.arg[1] \notin {1, 2, 4}

\* C17: a reg_read of address 0 and an adjust_lt with a lane count outside
\* {1, 2, 4} return -EINVAL at once, with no byte written to or read from the
\* mailbox.
C17_ValidationBeforeTraffic ==
    \A p \in Procs :
        RefusedArgument(th[p]) =>
            /\ th[p].cpc = "done" /\ th[p].ret = -EINVAL
            /\ NoMailboxTraffic(th[p])

\* an adjust_lt with 3 lanes is refused
C17_Witness ==
    \E p \in Procs :
        /\ th[p].cmd = "adjust_lt" /\ th[p].arg[1] = 3
        /\ th[p].cpc = "done" /\ th[p].ret = -EINVAL

\* a reg_read of address 0 is refused
C17_WitnessRegRead ==
    \E p \in Procs :
        /\ th[p].cmd = "reg_read" /\ th[p].arg[1] = W32(0, 0)
        /\ th[p].cpc = "done" /\ th[p].ret = -EINVAL

\* the frame that switches the firmware: main-control opcode, general module
\* id, length 1, active or standby
ActivationFrame(enable) ==
    <<GENERAL_MAIN_CONTROL, MB_MODULE_ID_GENERAL, 0, 1>>
        \o <<IF enable THEN FW_ACTIVE ELSE FW_STANDBY>>

\* C18: a firmware activation writes the 5 bytes of its frame in order and
\* nothing else, reads only after the 5 writes and at most 5 bytes; once it
\* has returned, it returned 0 if all 10 transfers completed, whatever was
\* read, and otherwise -ETIMEDOUT, the result of its last byte transfer.
C18_FirmwareActivation ==
    \A p \in Procs :
        LET l == th[p] IN
        l.cmd = "set_firmware_active" =>
            /\ IsPrefix(l.sent, ActivationFrame(l.arg[1]))
            /\ l.nread <= 5
            /\ l.nread > 0 => l.sent = ActivationFrame(l.arg[1])
            /\ l.cpc = "done" =>
                 IF Len(l.sent) = 5 /\ l.nread = 5
                 THEN l.ret = 0
                 ELSE l.ret = -ETIMEDOUT /\ l.res = -ETIMEDOUT

\* an activation succeeds on an answer that is no main-control frame
C18_Witness ==
    \E p \in Procs :
        /\ th[p].cmd = "set_firmware_active" /\ th[p].cpc = "done"
        /\ th[p].ret = 0 /\ th[p].nread = 5 /\ Len(th[p].sent) = 5
        /\ th[p].msg[1] # GENERAL_MAIN_CONTROL

\* an activation gives up at a read that timed out
C18_WitnessTimeout ==
    \E p \in Procs :
        /\ th[p].cmd = "set_firmware_active" /\ th[p].cpc = "done"
        /\ th[p].ret = -ETIMEDOUT /\ th[p].nread = 4

\* the bus writes of a firmware load: reset, the instruction words, the data
\* words, release
LoadWrites(arg) ==
    <<[fn |-> "bus_write", op |-> APB_CTRL, val |-> 7]>>
    \o [k \in 1..(arg[2] \div 4) |->
          [fn |-> "bus_write", op |-> 65536 + 4 * (k - 1), val |-> arg[1][k]]]
    \o [k \in 1..(arg[4] \div 4) |->
          [fn |-> "bus_write", op |-> 131072 + 4 * (k - 1), val |-> arg[3][k]]]
    \o <<[fn |-> "bus_write", op |-> APB_CTRL, val |-> 0]>>

\* C19: a firmware load writes the reset, then every instruction and data
\* word, then the release, and samples the keep-alive register only after the
\* release; a load all of whose samples read zero returns -EINVAL, which is
\* neither 0 nor -ETIMEDOUT, after the alive timeout, and leaves
\* mhdp->fw_version as it was.
C19_FirmwareLoad ==
    \A p \in Procs :
        LET l == th[p] IN
        l.cmd = "load_firmware" =>
            /\ IsPrefix(l.hist, LoadWrites(l.arg))
            /\ (l.seen # {} \/ l.bst = "alive" \/ l.cpc = "done") =>
                  l.hist = LoadWrites(l.arg)
            /\ l.cpc # "done" => fw_version = l.old
            /\ (l.cpc = "done" /\ l.seen \subseteq {0}) =>
                  /\ l.ret = -EINVAL /\ l.ret # 0 /\ l.ret # -ETIMEDOUT
                  /\ fw_version = l.old
                  /\ l.elapsed > AliveTimeoutTicks

\* a load of two instruction words and a data word fails on a dead firmware
\* and keeps the version of an earlier load
C19_Witness ==
    \E p \in Procs :
        /\ th[p].cmd = "load_firmware" /\ th[p].cpc = "done"
        /\ th[p].seen = {0} /\ th[p].ret = -EINVAL
        /\ Len(th[p].hist) = 5
        /\ fw_version = th[p].old /\ fw_version # <<0, 0, 0, 0>>

\* C20: from the moment a handler has seen the reset event and masked the
\* interrupts until the reset work has re-enabled them, the work is queued
\* once and entered once.
C20_NoReentrantReset ==
    pcie.win => pcie.nsched <= 1 /\ pcie.nrun <= 1

\* n times x
Times(n, x) == [k \in 1..n |-> x]

\* what a run of the reset work may do, in order, with polls of at most
\* PollRetries + 1 samples: a run whose reset poll is answered, and the run
\* whose reset poll times out
RecoveryRuns ==
    { <<"bridge_control">> \o Times(k, "reset_busy")
        \o <<"reset_done", "dbg_we", "dbg_pabr", "dbg_wd", "host_init">>
        \o lk \o <<"clear_status", "enable">> :
        k \in 0..PollRetries,
        lk \in { Times(j, "link_down") \o <<"link_up">> : j \in 0..PollRetries }
                 \cup { Times(PollRetries + 1, "link_down") } }
    \cup { <<"bridge_control">> \o Times(PollRetries + 1, "reset_busy")
             \o <<"clear_status", "enable">> }

\* C21: a run of the reset work clears the bus-reset bit, polls for the reset
\* to be complete, at most PollRetries + 1 times, writes the debug register
\* three times (write-enable, PABR, write-disable), re-initialises the host
\* controller and polls for the link, again at most PollRetries + 1 times, in
\* this order; a run whose reset poll times out does none of the steps after
\* that poll; every run ends with the status cleared and the interrupts
\* enabled.
C21_RecoveryOrder ==
    /\ \E run \in RecoveryRuns : IsPrefix(pcie.log, run)
    /\ pcie.wpc = "idle" /\ pcie.log # <<>> => pcie.log \in RecoveryRuns
    /\ "WE" \in pcie.dbg => pcie.wpc \in {"dbg_pabr", "dbg_wd"}

\* a run whose reset poll timed out has re-enabled the interrupts
C21_Witness ==
    /\ pcie.wpc = "idle"
    /\ pcie.log = <<"bridge_control">> \o Times(PollRetries + 1, "reset_busy")
                     \o <<"clear_status", "enable">>

\* a run whose polls were answered at their last sample
C21_WitnessFull ==
    /\ pcie.wpc = "idle"
    /\ pcie.log = <<"bridge_control">> \o Times(PollRetries, "reset_busy")
                     \o <<"reset_done", "dbg_we", "dbg_pabr", "dbg_wd", "host_init">>
                     \o Times(PollRetries, "link_down")
                     \o <<"link_up", "clear_status", "enable">>

\* C22: a configuration read of a device behind the controller: on revision
\* 1.0 and at the offset of the vendor ID, bit PCIE_LUT_GCR_RRE is 0 while the
\* read is issued and PCIE_LUT_GCR holds on return what it held before the call;
\* for any other revision or offset the register is not written at all
C22_ConfigReadFrame ==
    LET c == pcie.cfg IN
    IF read_other_conf_workaround(pcie)
    THEN /\ c.pc \in {"set", "done"} => (c.lut_rd \div 2 ^ PCIE_LUT_GCR_RRE) % 2 = 0
         /\ c.pc = "done" => pcie.lut = c.lut0
    ELSE c.nwr = 0

\* C23: in either windowed mode and with concurrent callers, every data access
\* is performed while the page-select register holds the page of the same
\* call: no other caller writes the register between a call's write of it and
\* its data access, and the access reaches the register the call named
C23_PageSelectHeld ==
    bus.bus_type \in Low4kTypes =>
        \A p \in Procs :
            /\ bus.c[p].pc = "data" =>
                   bus.sec[page_select(bus.bus_type)] = bus_page(bus.c[p].offset)
            /\ bus.c[p].at # -1 => bus.c[p].at = bus.c[p].offset

\* a windowed access of one caller has reached its register in a page other
\* than the one the other caller, who waits for the lock, asks for
C23_Witness ==
    /\ bus.bus_type \in Low4kTypes
    /\ bus.c[1].pc = "unlock" /\ bus.c[1].at = bus.c[1].offset
    /\ bus.c[2].pc = "lock"
    /\ bus_page(bus.c[2].offset) # bus_page(bus.c[1].offset)
    /\ bus.sec[page_select(bus.bus_type)] # 0

\* the link rates of the bandwidth codes DP_LINK_BW_1_62, DP_LINK_BW_2_7,
\* DP_LINK_BW_5_4 and DP_LINK_BW_8_1
EnumeratedRates == {drm_dp_bw_code_to_link_rate(bw) : bw \in {6, 10, 20, 30}}

\* C24: after any sequence of train_link calls against any firmware responses
\* the lane count of mhdp->dp.link is 1, 2 or 4 and its rate is one of the
\* rates of the bandwidth codes
C24_LinkStateInRange ==
    /\ link.num_lanes \in {1, 2, 4}
    /\ link.rate \in EnumeratedRates

\* caller l has returned from a train_link whose status query sent its
\* request, validated the response header and read the 10 bytes of the payload,
\* each with result 0
StatusQuerySucceeded(l) ==
    /\ l.cmd = "train_link" /\ l.cpc = "done" /\ l.ret = 0
    /\ l.sent = <<DPTX_READ_LINK_STAT, MB_MODULE_ID_DP_TX, 0, 0>>
    /\ l.steps = <<[n |-> 0, ret |-> 0, fn |-> "send"],
                   [n |-> 10, ret |-> 0, fn |-> "validate_receive"],
                   [n |-> 10, ret |-> 0, fn |-> "read_receive"]>>
    /\ Len(l.buff) = 10

\* C25: mhdp->dp.link is changed only by a training-status query whose send,
\* header validation and read of the 10 payload bytes all succeeded, and then
\* to what the payload says; every other step of train_link, set_host_cap and
\* config_video leaves it as it is, and a train_link that returns an error
\* has left it as it found it
C25_LinkFrame ==
    /\ [][link' # link => /\ StatusQuerySucceeded(th'[1])
                          /\ link' = training_status_link(th'[1].buff)]_vars
    /\ [](\A p \in {1} :
            th[p].cmd = "train_link" /\ th[p].cpc = "done" /\ Failed(th[p].ret)
                   => link = th[p].old)

\* a train_link has returned 0 and has changed the link state
C25_Witness ==
    /\ StatusQuerySucceeded(th[1])
    /\ link # th[1].old
    /\ link = training_status_link(th[1].buff)

\* a train_link whose read of the status payload timed out after the first two
\* bytes has returned the error
C25_WitnessFailed ==
    /\ th[1].cmd = "train_link" /\ th[1].cpc = "done" /\ th[1].ret = -ETIMEDOUT
    /\ th[1].sent = <<DPTX_READ_LINK_STAT, MB_MODULE_ID_DP_TX, 0, 0>>
    /\ Len(th[1].buff) >= 2
    /\ link = th[1].old

\* C27: cdns_mhdp_adjust_lt returns 0 only if it has read the whole response
\* payload, the 5 bytes that echo the request and the 6 status bytes, the
\* latter into the caller's buffer; a response whose echoed address is not
\* DP_LANE0_1_STATUS gives an error, never a 0 with the status bytes unread
C27_AdjustLtReadsAll ==
    \A p \in {1} :
        th[p].cmd = "adjust_lt" /\ th[p].cpc = "done" /\ th[p].ret = 0 =>
            /\ get_unaligned_be24(SubSeq(th[p].reg, 3, 5)) = W32(0, DP_LANE0_1_STATUS)
            /\ Len(th[p].buff) = 6
            /\ Len(rx) < 6

\* C28: the result of cdns_mhdp_reg_read (which cdns_phy_reg_read hands on)
\* tells success from failure for every 32-bit register value: a read whose
\* response was received whole and echoes the address requested does not return
\* a negative int, which is how the function reports its errors
C28_ResultTellsSuccess ==
    \A p \in Procs :
        /\ RegReadIntact(th[p])
        /\ SubSeq(th[p].buff, 1, 4) = WordBytes(th[p].arg[1])
        => ~(th[p].ret < 0)

\* C26: with a clock that keeps advancing every operation terminates, whatever
\* the mailbox flags read and whatever the firmware answers: a byte access that
\* has begun ends, a transport call or poll of a command that has begun returns
\* into it, and a command that has begun returns to its caller
C26_OperationsTerminate ==
    \A p \in {1} :
        /\ (th[p].bst # "none") ~> (th[p].bst = "none")
        /\ (th[p].cpc \notin {"idle", "done"}) ~> (th[p].cpc = "done")

\* an EDID fetch has returned -ETIMEDOUT after a poll of a mailbox flag used
\* up its time
C26_Witness ==
    /\ th[1].cmd = "get_edid_block" /\ th[1].cpc = "done"
    /\ th[1].ret = -ETIMEDOUT
    /\ PollExpired(th[1].elapsed)

\* an alive check has used up its retries and has returned false
C26_WitnessNotAlive ==
    /\ th[1].cmd = "check_alive" /\ th[1].cpc = "done"
    /\ th[1].ret = 0 /\ th[1].att = 0

====
